---- MODULE Spec2Model ----
(***************************************************************************)
(* State-machine model of the chat / canvas application:                   *)
(*   - the session store (hooks/useChatSessions.ts),                       *)
(*   - the chat panel with its turn list (components/ChatPanel.tsx),       *)
(*   - the sidebar and the App shell (components/ChatSidebar.tsx),         *)
(*   - the canvas panel and its text blocks (CanvasPanel, TextBlock).      *)
(* React state updates of one event, and the effects they schedule, are    *)
(* applied in one step: React flushes them before the next event runs.     *)
(***************************************************************************)
EXTENDS Integers, Sequences, FiniteSets, TLC

VARIABLES
  now,              \* Date.now(), in milliseconds
  budget,           \* events still to be followed in this behaviour
  lastOp,           \* history: the last event handled and what it did
  storage,          \* localStorage['chat-sessions']: <<>> (no item) or <<serialized>>
  storageFaults,    \* localStorage: whether getItem and setItem throw at present
  chatSessions,     \* useChatSessions: the in-memory session array
  queued,           \* useChatSessions: sessions whose addChatSession update is not rendered yet
  isLoaded,         \* useChatSessions: the load effect has run
  currentChatId,    \* App: the active chat id
  turns,            \* ChatPanel: the displayed turn list
  inflight,         \* useChat: completion requests whose stream has not finished
  lastSaved,        \* history: the array the save effect serialized last
  submitted,        \* history: the submits made, each with the chat active then and,
                    \*   once its response has completed, the chat active at that time
  draggedText,      \* App: the selected text handed to the canvas, <<>> or <<text>>
  sourceMsgId,      \* App: the message the text was selected in, <<>> or <<id>>
  sourceChatId,     \* App: the chat of that message, <<>> or <<id>>
  canvasMounted,    \* App: isCanvasVisible, the CanvasPanel is mounted
  isInitialized,    \* CanvasPanel: the mount effects have run
  canvases,         \* CanvasPanel: the canvas records
  currentCanvasId,  \* CanvasPanel: the id of the current canvas
  nodes,            \* CanvasPanel: the live node list
  connections,      \* CanvasPanel: the live connection list
  zoom,             \* CanvasPanel: the zoom level, a rational <<n, d>>
  pan,              \* CanvasPanel: the pan offset [x, y], rationals
  isPanning,        \* CanvasPanel: a pan gesture is in progress
  panStart,         \* CanvasPanel: mouse position minus pan at mouse-down
  panOrigin,        \* history: the pan offset and the mouse position at the last mouse-down that started a pan
  isSwitchingCanvas,\* CanvasPanel: a canvas switch was started and its timer has not fired
  switchTimers,     \* CanvasPanel: pending setTimeout callbacks of canvas switches
  canvasAtUnmount,  \* history: the canvas records when the panel was last unmounted
  everCreated,      \* history: the nodes created, each with the canvas current then
  sizeTexts,        \* the two texts whose initial sizes are compared
  sizeOut,          \* the sizes calculateInitialSize gave for them
  calls,            \* the chat route: the POST calls received, each with its position
  highlightedMessageId, \* App: the highlighted message, <<>> or <<id>>
  clearTimer,       \* ChatPanel: seconds until the pending clear timer fires, 0: none pending
  searchQuery,      \* ChatSidebar: the text of the search input
  sidebarSessions,  \* ChatSidebar: the chatSessions array it is handed
  sortedChats       \* ChatSidebar: <<>> before the first render, then <<the list displayed>>

chatVars == <<storage, storageFaults, queued, chatSessions, isLoaded, currentChatId, turns,
              inflight, lastSaved, submitted>>

canvasVars == <<draggedText, sourceMsgId, sourceChatId, canvasMounted,
                isInitialized, canvases, currentCanvasId, nodes, connections,
                zoom, pan, isPanning, panStart, panOrigin, isSwitchingCanvas, switchTimers,
                canvasAtUnmount, everCreated>>

sizeVars == <<sizeTexts, sizeOut>>

routeVars == <<calls>>

highlightVars == <<highlightedMessageId, clearTimer>>

sidebarVars == <<searchQuery, sidebarSessions, sortedChats>>

vars == <<now, budget, lastOp, chatVars, canvasVars, sizeVars, routeVars,
          highlightVars, sidebarVars>>

----------------------------------------------------------------------------
(* Bounds of the model *)

MaxEvents == 6         \* events followed in a behaviour of the chat panel
MaxCanvasEvents == 5   \* events followed in a behaviour of the canvas panel
MaxZoomEvents == 9     \* events followed in a behaviour of the zoom controls
MaxSwitchEvents == 7   \* events followed in a behaviour of the canvas menu
MaxFaultEvents == 5    \* events followed in a behaviour with a failing localStorage
MaxHighlightEvents == 6 \* events followed in a behaviour of block clicks and highlights
MaxSidebarSessions == 3 \* most sessions in the array the sidebar is handed
MaxEnsureEvents == 6   \* events followed in a behaviour of ensureChatExists calls
MaxRouteEvents == 8    \* steps followed in a behaviour of the chat route
MaxRouteCalls == 3     \* POST calls received in such a behaviour
MaxSizeChars == 500    \* longest text whose initial size is computed
MaxSizeSpaces == 60    \* most spaces in such a text
HighlightDuration == 2 \* seconds after which the clear timer of a highlight fires
StartTime == 1998   \* Date.now() when the page is first opened

----------------------------------------------------------------------------
(* Text: a string is modelled as the list of its runs of equal characters. *)
(* Only the distinction space / non-space matters to the program.          *)

Sp(n) == [ch |-> " ", n |-> n]
Ch(n) == [ch |-> "x", n |-> n]

RECURSIVE TrimStart(_)
TrimStart(t) ==
  IF t = <<>> THEN <<>>
  ELSE IF Head(t).ch = " " THEN TrimStart(Tail(t)) ELSE t

RECURSIVE TrimEnd(_)
TrimEnd(t) ==
  IF t = <<>> THEN <<>>
  ELSE IF t[Len(t)].ch = " " THEN TrimEnd(SubSeq(t, 1, Len(t) - 1)) ELSE t

\* String.prototype.trim
Trim(t) == TrimEnd(TrimStart(t))

RECURSIVE TextLength(_)
\* String.prototype.length
TextLength(t) == IF t = <<>> THEN 0 ELSE Head(t).n + TextLength(Tail(t))

RECURSIVE CountSpaces(_)
CountSpaces(t) ==
  IF t = <<>> THEN 0
  ELSE (IF Head(t).ch = " " THEN Head(t).n ELSE 0) + CountSpaces(Tail(t))

\* text.split(' ').length: one more piece than there are spaces
SplitLength(t) == CountSpaces(t) + 1

----------------------------------------------------------------------------
(* Dates and their JSON form.  A Date holds a millisecond time value;      *)
(* Date.prototype.toJSON gives the ISO string, which spells the seconds    *)
(* and the milliseconds apart; new Date(string) reads them back.           *)

NewDate(ms) == <<"Date", ms>>

DateToJSON(d) == <<"ISO", d[2] \div 1000, d[2] % 1000>>

\* A reading of the ISO string that stops at the seconds
DateFromSeconds(s) == <<"Date", s[2] * 1000>>

DateFromString(s) == <<"Date", s[2] * 1000 + s[3]>>

\* JSON.stringify of one message: the timestamp becomes its ISO string
StringifyMessage(m) ==
  [k \in DOMAIN m |-> IF k = "timestamp" THEN DateToJSON(m[k]) ELSE m[k]]

\* JSON.stringify of one session: keys that are present are kept
StringifySession(s) ==
  [k \in DOMAIN s |->
     IF k = "lastActivity" THEN DateToJSON(s[k])
     ELSE IF k = "messages"
          THEN [i \in DOMAIN s[k] |-> StringifyMessage(s[k][i])]
          ELSE s[k]]

\* JSON.stringify(chatSessions)
StringifySessions(ss) == [i \in DOMAIN ss |-> StringifySession(ss[i])]

ReviveMessage(m) ==
  [k \in DOMAIN m |-> IF k = "timestamp" THEN DateFromString(m[k]) ELSE m[k]]

ReviveSession(s) ==
  [k \in DOMAIN s |->
     IF k = "lastActivity" THEN DateFromString(s[k])
     ELSE IF k = "messages"
          THEN [i \in DOMAIN s[k] |-> ReviveMessage(s[k][i])]
          ELSE s[k]]

\* JSON.parse(stored).map(session => ({...session, lastActivity: new Date(..), ..}))
ParseSessions(json) == [i \in DOMAIN json |-> ReviveSession(json[i])]

----------------------------------------------------------------------------
(* Session store *)

DefaultChatId == <<"default-chat", 0>>
ProjectChatId == <<"project-discussion", 0>>
NewChatId(t) == <<"new-chat", t>>

NewChat(id, t) ==
  [id |-> id, title |-> "New Chat", messages |-> <<>>, lastActivity |-> NewDate(t)]

SessionIds(ss) == {ss[i].id : i \in DOMAIN ss}

\* the object spread {...chat, ...updates}
Merge(r, u) ==
  [k \in (DOMAIN r) \cup (DOMAIN u) |-> IF k \in DOMAIN u THEN u[k] ELSE r[k]]

AddChatSession(ss, chat) == <<chat>> \o ss

UpdateChatSession(ss, chatId, updates) ==
  [i \in DOMAIN ss |-> IF ss[i].id = chatId THEN Merge(ss[i], updates) ELSE ss[i]]

DeleteChatSession(ss, chatId) == SelectSeq(ss, LAMBDA c : c.id # chatId)

\* an ensureChatExists that adds nothing
EnsureChatExistsSkipped(ss, chatId, t) == ss

\* ensureChatExists(chatId), on the array its updater is applied to
EnsureChatExists(ss, chatId, t) ==
  IF chatId \in SessionIds(ss) THEN ss ELSE AddChatSession(ss, NewChat(chatId, t))

\* localStorage as it behaves when nothing is wrong with it
NoFaults == [getItem |-> FALSE, setItem |-> FALSE]

\* session.messages.map(..) of a parsed element that has no messages array
\* is a TypeError
ParseThrows(json) == \E i \in DOMAIN json : "messages" \notin DOMAIN json[i]

\* the try block of the load effect is left by an exception
LoadThrows(stored, faults) ==
  faults.getItem \/ (stored # <<>> /\ ParseThrows(stored[1]))

\* A load effect whose catch block sets no sessions
LoadedSessionsUncaught(stored, faults, t) ==
  IF LoadThrows(stored, faults) THEN <<>>
  ELSE IF stored # <<>> THEN ParseSessions(stored[1])
  ELSE <<NewChat(DefaultChatId, t)>>

\* The load effect: the sessions it passes to setChatSessions
LoadedSessions(stored, faults, t) ==
  IF LoadThrows(stored, faults) THEN <<NewChat(DefaultChatId, t)>>
  ELSE IF stored # <<>> THEN ParseSessions(stored[1])
  ELSE <<NewChat(DefaultChatId, t)>>

\* The save effect: what the item holds after it, setItem throwing or not
SavedItem(item, faults, ss) ==
  IF faults.setItem THEN item ELSE <<StringifySessions(ss)>>

----------------------------------------------------------------------------
(* Chat panel *)

UserMessage(input, t) ==
  [id |-> <<"user", t>>, type |-> "user", content |-> input,
   timestamp |-> NewDate(t)]

AiMessage(req, t) ==
  [id |-> <<"ai", req.n>>, type |-> "ai", content |-> <<Ch(3)>>,
   timestamp |-> NewDate(t)]

\* turns.flatMap(turn => [turn.user, ...(turn.ai ? [turn.ai] : [])])
RECURSIVE FlatTurns(_)
FlatTurns(ts) ==
  IF ts = <<>> THEN <<>>
  ELSE <<Head(ts).user>> \o Head(ts).ai \o FlatTurns(Tail(ts))

\* what the textarea may hold when a submit arrives
ChatInputs == { <<>>, <<Sp(1)>>, <<Sp(1), Ch(2)>> }

\* history record of one event: its name, the chat it concerned, the id it
\* produced or navigated to, whether it changed anything, and (for a load)
\* the array that had been persisted, the array the load effect produced
\* and the stored item as the effects of the mount left it
Op(name, chat, target, done) ==
  [op |-> name, chat |-> chat, target |-> target, done |-> done,
   persisted |-> <<>>, loaded |-> <<>>, itemAtMount |-> <<>>]

NoOp == Op("none", <<"none", 0>>, <<"none", 0>>, FALSE)

\* App renders again with the highlight it has: handleHighlightComplete is a
\* new function, so the highlight effect of ChatPanel cleans up (both timers
\* are cleared) and runs again (the timers are set anew)
AppRerendered ==
  /\ highlightedMessageId' = highlightedMessageId
  /\ clearTimer' = IF highlightedMessageId # <<>> THEN HighlightDuration ELSE 0

\* every event takes at least a millisecond, and MaxEvents of them are followed
Tick ==
  /\ budget > 0
  /\ budget' = budget - 1
  /\ now' = now + 1

\* A save effect that does not look at isLoaded
SaveEffectUngated(item, loaded, faults, ss) == SavedItem(item, faults, ss)

\* The save effect of a render with the given isLoaded and chatSessions
SaveEffect(item, loaded, faults, ss) ==
  IF loaded THEN SavedItem(item, faults, ss) ELSE item

\* A save effect that serializes the array of the render before the one the
\* ensure-exists effect causes, and is not run again
CommitSaveFirst(ss, chatId) ==
  /\ chatSessions' = EnsureChatExists(ss, chatId, now)
  /\ storage' = SaveEffect(storage, TRUE, storageFaults, ss)
  /\ lastSaved' = IF storageFaults.setItem THEN lastSaved ELSE ss

\* What every render with isLoaded set ends with: the ensure-exists effect,
\* then the save effect on the resulting array.
Commit(ss, chatId) ==
  LET ensured == EnsureChatExists(ss, chatId, now)
  IN /\ chatSessions' = ensured
     /\ storage' = SaveEffect(storage, TRUE, storageFaults, ensured)
     /\ lastSaved' = IF storageFaults.setItem THEN lastSaved ELSE ensured

\* useChatSessions: the effects of the mount (the load effect reads the item,
\* then the save effect runs with the isLoaded and the array of the first
\* render), and the renders that follow
LoadSessions ==
  /\ ~isLoaded
  /\ Tick
  /\ LET loaded == LoadedSessions(storage, storageFaults, now)
         atMount == SaveEffect(storage, isLoaded, storageFaults, chatSessions)
     IN /\ Commit(loaded, currentChatId)
        /\ lastOp' = [Op("load", currentChatId, currentChatId, storage # <<>>)
                        EXCEPT !.persisted = lastSaved, !.loaded = loaded,
                               !.itemAtMount = atMount]
  /\ isLoaded' = TRUE
  /\ UNCHANGED <<storageFaults, queued, currentChatId, turns, inflight, submitted>>
  /\ UNCHANGED <<canvasVars, sizeVars, routeVars, sidebarVars, highlightVars>>

\* ChatPanel.handleSubmit (form submit, or Enter through handleKeyPress)
HandleSubmit(input) ==
  /\ isLoaded
  /\ Tick
  /\ IF Trim(input) = <<>>
     THEN /\ lastOp' = Op("submit", currentChatId, <<"user", now>>, FALSE)
          /\ UNCHANGED <<storage, chatSessions, turns, inflight, lastSaved, submitted>>
     ELSE LET userMessage == UserMessage(input, now)
              updatedTurns == Append(turns, [user |-> userMessage, ai |-> <<>>])
          IN /\ turns' = updatedTurns
             /\ Commit(UpdateChatSession(chatSessions, currentChatId,
                         [messages |-> FlatTurns(updatedTurns),
                          lastActivity |-> NewDate(now)]),
                       currentChatId)
             /\ inflight' = Append(inflight, [n |-> now, chat |-> currentChatId])
             /\ submitted' = Append(submitted,
                               [chat |-> currentChatId, id |-> userMessage.id,
                                finishedIn |-> <<>>])
             /\ lastOp' = Op("submit", currentChatId, userMessage.id, TRUE)
  /\ UNCHANGED <<storageFaults, queued, isLoaded, currentChatId>>
  /\ UNCHANGED <<canvasVars, sizeVars, routeVars, sidebarVars, highlightVars>>

\* useChat isLoading of the active chat id: a request of it is streaming
IsLoading == \E i \in DOMAIN inflight : inflight[i].chat = currentChatId

\* handleKeyPress: Enter without Shift in the textarea calls handleSubmit
HandleKeyPress(input) == HandleSubmit(input)

\* The send button, disabled while the input is blank or isLoading: its
\* click submits the form, whose onSubmit is handleSubmit
ClickSend(input) ==
  /\ ~(Trim(input) = <<>> \/ IsLoading)
  /\ HandleSubmit(input)

\* useChat onFinish: the stream of request i has completed
OnFinish(i) ==
  /\ isLoaded
  /\ i \in DOMAIN inflight
  /\ Tick
  /\ LET req == inflight[i]
         lastTurn == turns[Len(turns)]
         attach == turns # <<>> /\ lastTurn.ai = <<>>
         updatedTurns ==
           [turns EXCEPT ![Len(turns)] = [lastTurn EXCEPT !.ai = <<AiMessage(req, now)>>]]
     IN /\ inflight' = SubSeq(inflight, 1, i - 1) \o SubSeq(inflight, i + 1, Len(inflight))
        /\ IF attach
           THEN /\ turns' = updatedTurns
                /\ Commit(UpdateChatSession(chatSessions, req.chat,
                            [messages |-> FlatTurns(updatedTurns),
                             lastActivity |-> NewDate(now)]),
                          currentChatId)
           ELSE UNCHANGED <<turns, chatSessions, storage, lastSaved>>
        /\ lastOp' = Op("finish", req.chat, <<"ai", req.n>>, attach)
        /\ submitted' = [k \in DOMAIN submitted |->
                           IF submitted[k].id = <<"user", req.n>>
                           THEN [submitted[k] EXCEPT !.finishedIn = <<currentChatId>>]
                           ELSE submitted[k]]
  /\ UNCHANGED <<storageFaults, queued, isLoaded, currentChatId>>
  /\ UNCHANGED <<canvasVars, sizeVars, routeVars, sidebarVars, highlightVars>>

\* ChatSidebar.handleChatSelect -> App.handleChatSelect
HandleChatSelect(chatId) ==
  /\ isLoaded
  /\ chatId \in SessionIds(chatSessions)
  /\ Tick
  /\ currentChatId' = chatId
  /\ LET chat == CHOOSE c \in {chatSessions[i] : i \in DOMAIN chatSessions} : c.id = chatId
         unread == "unreadCount" \in DOMAIN chat /\ chat.unreadCount # 0
     IN Commit(IF unread
               THEN UpdateChatSession(chatSessions, chatId, [unreadCount |-> 0])
               ELSE chatSessions,
               chatId)
  /\ lastOp' = Op("select", chatId, chatId, TRUE)
  /\ highlightedMessageId' = <<>>
  /\ clearTimer' = 0
  /\ UNCHANGED <<storageFaults, queued, isLoaded, turns, inflight, submitted>>
  /\ UNCHANGED <<canvasVars, sizeVars, routeVars, sidebarVars>>

\* router.push(`/chat/${id}`): the chat route makes id the active chat, and
\* the App renders with it
RouterPush(id) == currentChatId' = id /\ AppRerendered

\* ChatPanel.handleNewChatClick
HandleNewChatClick ==
  /\ isLoaded
  /\ Tick
  /\ LET newChatId == NewChatId(now)
     IN /\ RouterPush(newChatId)
        /\ Commit(AddChatSession(chatSessions, NewChat(newChatId, now)), newChatId)
        /\ lastOp' = Op("new", newChatId, newChatId, TRUE)
  /\ UNCHANGED <<storageFaults, queued, isLoaded, turns, inflight, submitted>>
  /\ UNCHANGED <<canvasVars, sizeVars, routeVars, sidebarVars>>

\* A handleChatDelete that takes the first listed chat, deleted or not
HandleChatDeleteFirst(chatId) ==
  LET deleted == DeleteChatSession(chatSessions, chatId)
  IN IF currentChatId = chatId
     THEN /\ RouterPush(chatSessions[1].id)
          /\ Commit(deleted, chatSessions[1].id)
          /\ lastOp' = Op("delete", chatId, chatSessions[1].id, TRUE)
     ELSE /\ Commit(deleted, currentChatId)
          /\ lastOp' = Op("delete", chatId, currentChatId, FALSE)
          /\ UNCHANGED <<currentChatId, highlightVars>>

\* ChatPanel.handleChatDelete
HandleChatDelete(chatId) ==
  LET remainingChats == SelectSeq(chatSessions, LAMBDA c : c.id # chatId)
      deleted == DeleteChatSession(chatSessions, chatId)
      newChatId == NewChatId(now)
  IN IF currentChatId = chatId
     THEN IF Len(remainingChats) > 0
          THEN /\ RouterPush(remainingChats[1].id)
               /\ Commit(deleted, remainingChats[1].id)
               /\ lastOp' = Op("delete", chatId, remainingChats[1].id, TRUE)
          ELSE /\ RouterPush(newChatId)
               /\ Commit(AddChatSession(deleted, NewChat(newChatId, now)), newChatId)
               /\ lastOp' = Op("delete", chatId, newChatId, TRUE)
     ELSE /\ Commit(deleted, currentChatId)
          /\ lastOp' = Op("delete", chatId, currentChatId, FALSE)
          /\ UNCHANGED <<currentChatId, highlightVars>>

\* ChatSidebar.handleDeleteChat: the delete button of one listed chat
HandleDeleteChat(chatId) ==
  /\ isLoaded
  /\ chatId \in SessionIds(chatSessions)
  /\ Len(chatSessions) > 1
  /\ Tick
  /\ HandleChatDelete(chatId)
  /\ submitted' = SelectSeq(submitted, LAMBDA r : r.chat # chatId)
  /\ UNCHANGED <<storageFaults, queued, isLoaded, turns, inflight>>
  /\ UNCHANGED <<canvasVars, sizeVars, routeVars, sidebarVars>>

----------------------------------------------------------------------------
(* Rational numbers <<n, d>> with d > 0, in lowest terms: the canvas         *)
(* arithmetic (zoom factors, halves of pixel sizes) is done exactly.         *)

Abs(n) == IF n < 0 THEN -n ELSE n

RECURSIVE Gcd(_, _)
Gcd(a, b) == IF b = 0 THEN a ELSE Gcd(b, a % b)

Rat(n, d) ==
  LET g == Gcd(Abs(n), Abs(d))
      sgn == IF d < 0 THEN -1 ELSE 1
  IN <<(sgn * n) \div g, (sgn * d) \div g>>

Whole(n) == <<n, 1>>
RatAdd(a, b) == Rat(a[1] * b[2] + b[1] * a[2], a[2] * b[2])
RatSub(a, b) == Rat(a[1] * b[2] - b[1] * a[2], a[2] * b[2])
RatMul(a, b) ==
  LET g1 == Gcd(Abs(a[1]), b[2])
      g2 == Gcd(Abs(b[1]), a[2])
  IN Rat((a[1] \div g1) * (b[1] \div g2), (a[2] \div g2) * (b[2] \div g1))
RatDiv(a, b) == RatMul(a, Rat(b[2], b[1]))
RatLeq(a, b) == a[1] * b[2] <= b[1] * a[2]
\* Math.min, Math.max
RatMin(a, b) == IF RatLeq(a, b) THEN a ELSE b
RatMax(a, b) == IF RatLeq(a, b) THEN b ELSE a
\* Math.round (halves go up)
RatRound(a) == (2 * a[1] + a[2]) \div (2 * a[2])

----------------------------------------------------------------------------
(* Canvas panel *)

\* getBoundingClientRect() of the element the canvas plane lies in
Viewport == [width |-> 800, height |-> 600]

Colors == <<"#3B82F6", "#14B8A6", "#F97316", "#EF4444", "#8B5CF6",
            "#06B6D4", "#84CC16", "#F59E0B", "#EC4899", "#6366F1">>

DefaultCanvasId == <<"default-canvas", 0>>

DefaultCanvas(t) ==
  [id |-> DefaultCanvasId, title |-> "Canvas 1", nodes |-> <<>>,
   connections |-> <<>>, createdAt |-> NewDate(t), lastModified |-> NewDate(t)]

\* A calculateInitialSize whose word adjustment is not capped
CalculateInitialSizeUncapped(text) ==
  LET words == SplitLength(text)
      chars == TextLength(text)
      width == IF chars > 100
               THEN RatMin(Whole(400), RatAdd(Whole(240), RatMul(Whole(chars - 100), <<3, 2>>)))
               ELSE Whole(240)
      height1 == IF chars > 100
                 THEN RatMin(Whole(250), Whole(120 + ((chars - 100) \div 60) * 25))
                 ELSE Whole(120)
      height == IF words > 20
                THEN RatAdd(height1, Whole(((words - 20) \div 12) * 20))
                ELSE height1
  IN [width |-> RatRound(width), height |-> RatRound(height)]

\* calculateInitialSize(text)
CalculateInitialSize(text) ==
  LET words == SplitLength(text)
      chars == TextLength(text)
      width == IF chars > 100
               THEN RatMin(Whole(400), RatAdd(Whole(240), RatMul(Whole(chars - 100), <<3, 2>>)))
               ELSE Whole(240)
      height1 == IF chars > 100
                 THEN RatMin(Whole(250), Whole(120 + ((chars - 100) \div 60) * 25))
                 ELSE Whole(120)
      height == IF words > 20
                THEN RatMin(Whole(300), RatAdd(height1, Whole(((words - 20) \div 12) * 20)))
                ELSE height1
  IN [width |-> RatRound(width), height |-> RatRound(height)]

\* A saveCurrentCanvas that writes the live lists into every record
SaveCurrentCanvasAll(cs, canvasId, ns, conns, t) ==
  [i \in DOMAIN cs |->
     [cs[i] EXCEPT !.nodes = ns, !.connections = conns, !.lastModified = NewDate(t)]]

\* A saveCurrentCanvas that only stamps the record
SaveCurrentCanvasStamp(cs, canvasId, ns, conns, t) ==
  [i \in DOMAIN cs |->
     IF cs[i].id = canvasId THEN [cs[i] EXCEPT !.lastModified = NewDate(t)]
     ELSE cs[i]]

\* saveCurrentCanvas: the live lists are copied into the current canvas record
SaveCurrentCanvas(cs, canvasId, ns, conns, t) ==
  [i \in DOMAIN cs |->
     IF cs[i].id = canvasId
     THEN [cs[i] EXCEPT !.nodes = ns, !.connections = conns,
                        !.lastModified = NewDate(t)]
     ELSE cs[i]]

\* The part of the panel's and the App's state the effects read and write
CanvasState ==
  [draggedText |-> draggedText, sourceMsgId |-> sourceMsgId,
   sourceChatId |-> sourceChatId, canvases |-> canvases,
   currentCanvasId |-> currentCanvasId, nodes |-> nodes,
   connections |-> connections, zoom |-> zoom, pan |-> pan,
   isInitialized |-> isInitialized, isSwitchingCanvas |-> isSwitchingCanvas]

\* The dropped-text effect: the node it builds from the pending text
NewNode(st, t) ==
  LET text == st.draggedText[1]
      viewportCenterX ==
        RatDiv(RatAdd(RatSub(Rat(Viewport.width, 2), st.pan.x), Whole(2500)), st.zoom)
      viewportCenterY ==
        RatDiv(RatAdd(RatSub(Rat(Viewport.height, 2), st.pan.y), Whole(2500)), st.zoom)
      size == CalculateInitialSize(text)
  IN [id |-> <<"node", t>>,
      text |-> text,
      x |-> RatSub(viewportCenterX, Rat(size.width, 2)),
      y |-> RatSub(viewportCenterY, Rat(size.height, 2)),
      width |-> size.width,
      height |-> size.height,
      sourceMessageId |-> st.sourceMsgId,
      sourceChatId |-> st.sourceChatId,
      color |-> Colors[(Len(st.nodes) % Len(Colors)) + 1]]

\* A dropped-text effect that never calls onTextDragComplete
DroppedTextEffectKeep(st, t) ==
  IF st.draggedText # <<>>
  THEN [st EXCEPT !.nodes = Append(st.nodes, NewNode(st, t))]
  ELSE st

\* The dropped-text effect: with a pending text it appends the node and
\* calls onTextDragComplete, which clears the text and its source ids
DroppedTextEffect(st, t) ==
  IF st.draggedText # <<>>
  THEN [st EXCEPT !.nodes = Append(st.nodes, NewNode(st, t)),
                  !.draggedText = <<>>,
                  !.sourceMsgId = <<>>,
                  !.sourceChatId = <<>>]
  ELSE st

\* The effect that centres the pan once after mount
PanInitEffect(st) ==
  IF ~st.isInitialized
  THEN [st EXCEPT !.pan = [x |-> Rat(Viewport.width, 2), y |-> Rat(Viewport.height, 2)],
                  !.isInitialized = TRUE]
  ELSE st

\* The effects of one commit.  Each reads the state of the render it belongs
\* to; nodesSet says that setNodes was called since the last commit, so that
\* the save effect runs.
Effects(st, t, nodesSet) ==
  LET dropped == DroppedTextEffect(st, t)
      centred == PanInitEffect(st)
  IN [dropped EXCEPT
        !.canvases = IF nodesSet /\ ~st.isSwitchingCanvas
                     THEN SaveCurrentCanvas(st.canvases, st.currentCanvasId,
                                            st.nodes, st.connections, t)
                     ELSE st.canvases,
        !.pan = centred.pan,
        !.isInitialized = centred.isInitialized]

\* The commits that follow one event: the effects run, and run again when
\* they changed the node list
Settle(st, t, nodesSet) ==
  LET first == Effects(st, t, nodesSet)
  IN IF first.nodes # st.nodes THEN Effects(first, t, TRUE) ELSE first

\* history: the nodes of the settled state that the state before lacks
CreatedBy(before, final) ==
  LET fresh == SelectSeq(final.nodes,
                         LAMBDA n : \A i \in DOMAIN before : before[i].id # n.id)
  IN [i \in DOMAIN fresh |-> [canvas |-> final.currentCanvasId, id |-> fresh[i].id]]

\* The state the effects leave becomes the next state
CanvasCommit(st, nodesSet) ==
  \E final \in {Settle(st, now, nodesSet)} :
     /\ draggedText' = final.draggedText
     /\ sourceMsgId' = final.sourceMsgId
     /\ sourceChatId' = final.sourceChatId
     /\ canvases' = final.canvases
     /\ currentCanvasId' = final.currentCanvasId
     /\ nodes' = final.nodes
     /\ connections' = final.connections
     /\ zoom' = final.zoom
     /\ pan' = final.pan
     /\ isInitialized' = final.isInitialized
     /\ everCreated' = everCreated \o CreatedBy(st.nodes, final)

\* The style of the plane: translate(pan - 2500) scale(zoom), origin at its
\* centre.  Where a point of the plane is drawn in the viewport.
ToScreen(point) ==
  [x |-> RatAdd(RatAdd(RatSub(pan.x, Whole(2500)), Whole(2500)),
                RatMul(zoom, RatSub(point.x, Whole(2500)))),
   y |-> RatAdd(RatAdd(RatSub(pan.y, Whole(2500)), Whole(2500)),
                RatMul(zoom, RatSub(point.y, Whole(2500))))]

CanvasReady == canvasMounted /\ isInitialized

\* CanvasPanel: the effects of the first commit after the panel is mounted
CanvasMountEffects ==
  /\ canvasMounted /\ ~isInitialized
  /\ Tick
  /\ CanvasCommit(CanvasState, TRUE)
  /\ lastOp' = Op("canvasMount", currentChatId, currentCanvasId, draggedText # <<>>)
  /\ UNCHANGED <<canvasMounted, isPanning, panStart, panOrigin, isSwitchingCanvas,
                 switchTimers, canvasAtUnmount>>
  /\ UNCHANGED <<chatVars, sizeVars, routeVars, sidebarVars, highlightVars>>

\* ChatPanel.handleTextSelection -> App.handleTextDrag, and the commit of
\* the canvas panel that follows when it is mounted
HandleTextSelection(messageId, selectedText) ==
  /\ ~canvasMounted \/ isInitialized
  /\ Tick
  /\ IF Trim(selectedText) # <<>>
     THEN LET handed == [CanvasState EXCEPT !.draggedText = <<Trim(selectedText)>>,
                                            !.sourceMsgId = <<messageId>>,
                                            !.sourceChatId = <<currentChatId>>]
          IN /\ IF canvasMounted
                THEN CanvasCommit(handed, FALSE)
                ELSE /\ draggedText' = handed.draggedText
                     /\ sourceMsgId' = handed.sourceMsgId
                     /\ sourceChatId' = handed.sourceChatId
                     /\ UNCHANGED <<canvases, currentCanvasId, nodes, connections,
                                    zoom, pan, isInitialized, everCreated>>
             /\ AppRerendered
             /\ lastOp' = Op("textDrag", currentChatId, <<"node", now>>, TRUE)
     ELSE /\ lastOp' = Op("textDrag", currentChatId, <<"node", now>>, FALSE)
          /\ UNCHANGED <<draggedText, sourceMsgId, sourceChatId, canvases,
                         currentCanvasId, nodes, connections, zoom, pan,
                         isInitialized, everCreated, highlightVars>>
  /\ UNCHANGED <<canvasMounted, isPanning, panStart, panOrigin, isSwitchingCanvas,
                 switchTimers, canvasAtUnmount>>
  /\ UNCHANGED <<chatVars, sizeVars, routeVars, sidebarVars>>

\* no pan has started yet
NoPanOrigin == [pan |-> [x |-> Whole(0), y |-> Whole(0)], mouse |-> <<0, 0>>]

\* The state of a CanvasPanel that has just been constructed
CanvasConstructed(t) ==
  /\ isInitialized' = FALSE
  /\ canvases' = <<DefaultCanvas(t)>>
  /\ currentCanvasId' = DefaultCanvasId
  /\ nodes' = <<>>
  /\ connections' = <<>>
  /\ zoom' = Whole(1)
  /\ pan' = [x |-> Whole(0), y |-> Whole(0)]
  /\ isPanning' = FALSE
  /\ panStart' = [x |-> Whole(0), y |-> Whole(0)]
  /\ panOrigin' = NoPanOrigin
  /\ isSwitchingCanvas' = FALSE
  /\ switchTimers' = 0

\* App.onCanvasToggle: the canvas panel is unmounted, or mounted afresh
CanvasToggle ==
  /\ ~canvasMounted \/ isInitialized
  /\ Tick
  /\ canvasMounted' = ~canvasMounted
  /\ canvasAtUnmount' = IF canvasMounted THEN canvases ELSE canvasAtUnmount
  /\ everCreated' = <<>>
  /\ CanvasConstructed(now)
  /\ lastOp' = Op("canvasToggle", currentChatId, currentCanvasId, ~canvasMounted)
  /\ AppRerendered
  /\ UNCHANGED <<draggedText, sourceMsgId, sourceChatId>>
  /\ UNCHANGED <<chatVars, sizeVars, routeVars, sidebarVars>>

\* A zoom-in step without the upper clamp
ZoomedInFreely(prev) == RatMul(prev, <<6, 5>>)

\* handleZoomIn: setZoom(prev => Math.min(prev * 1.2, 3))
ZoomedIn(prev) == RatMin(RatMul(prev, <<6, 5>>), Whole(3))

\* handleZoomOut: setZoom(prev => Math.max(prev / 1.2, 0.5))
ZoomedOut(prev) == RatMax(RatDiv(prev, <<6, 5>>), <<1, 2>>)

\* handleWheel: delta is 1 for either sign of deltaY
Wheeled(prev, deltaY) ==
  LET delta == IF deltaY > 0 THEN Whole(1) ELSE Whole(1)
  IN RatMax(<<1, 2>>, RatMin(Whole(3), RatMul(prev, delta)))

HandleZoomIn ==
  /\ CanvasReady
  /\ Tick
  /\ CanvasCommit([CanvasState EXCEPT !.zoom = ZoomedIn(zoom)], FALSE)
  /\ lastOp' = Op("zoomIn", currentChatId, currentCanvasId, TRUE)
  /\ UNCHANGED <<canvasMounted, isPanning, panStart, panOrigin, isSwitchingCanvas,
                 switchTimers, canvasAtUnmount>>
  /\ UNCHANGED <<chatVars, sizeVars, routeVars, sidebarVars, highlightVars>>

HandleZoomOut ==
  /\ CanvasReady
  /\ Tick
  /\ CanvasCommit([CanvasState EXCEPT !.zoom = ZoomedOut(zoom)], FALSE)
  /\ lastOp' = Op("zoomOut", currentChatId, currentCanvasId, TRUE)
  /\ UNCHANGED <<canvasMounted, isPanning, panStart, panOrigin, isSwitchingCanvas,
                 switchTimers, canvasAtUnmount>>
  /\ UNCHANGED <<chatVars, sizeVars, routeVars, sidebarVars, highlightVars>>

\* a wheel event on the document; overCanvas: its target is inside the plane
HandleWheel(deltaY, overCanvas) ==
  /\ CanvasReady
  /\ Tick
  /\ CanvasCommit(IF overCanvas
                  THEN [CanvasState EXCEPT !.zoom = Wheeled(zoom, deltaY)]
                  ELSE CanvasState, FALSE)
  /\ lastOp' = Op("wheel", currentChatId, currentCanvasId, overCanvas)
  /\ UNCHANGED <<canvasMounted, isPanning, panStart, panOrigin, isSwitchingCanvas,
                 switchTimers, canvasAtUnmount>>
  /\ UNCHANGED <<chatVars, sizeVars, routeVars, sidebarVars, highlightVars>>

\* a handleMouseMove that sets the pan to the mouse position
PannedToMouse(mouse, start) == [x |-> Whole(mouse[1]), y |-> Whole(mouse[2])]

\* handleMouseMove: the pan it sets while panning
PannedTo(mouse, start) ==
  [x |-> RatSub(Whole(mouse[1]), start.x), y |-> RatSub(Whole(mouse[2]), start.y)]

\* handleCanvasMouseDown; onBackground: the target is the plane itself
HandleCanvasMouseDown(mouse, onBackground) ==
  /\ CanvasReady
  /\ Tick
  /\ IF onBackground
     THEN /\ isPanning' = TRUE
          /\ panStart' = [x |-> RatSub(Whole(mouse[1]), pan.x),
                          y |-> RatSub(Whole(mouse[2]), pan.y)]
          /\ panOrigin' = [pan |-> pan, mouse |-> mouse]
     ELSE UNCHANGED <<isPanning, panStart, panOrigin>>
  /\ lastOp' = Op("mouseDown", currentChatId, mouse, onBackground)
  /\ UNCHANGED <<draggedText, sourceMsgId, sourceChatId, canvasMounted,
                 isInitialized, canvases, currentCanvasId, nodes, connections,
                 zoom, pan, isSwitchingCanvas, switchTimers, canvasAtUnmount,
                 everCreated>>
  /\ UNCHANGED <<chatVars, sizeVars, routeVars, sidebarVars, highlightVars>>

\* handleMouseMove (document mousemove)
HandleMouseMove(mouse) ==
  /\ CanvasReady
  /\ Tick
  /\ CanvasCommit(IF isPanning
                  THEN [CanvasState EXCEPT !.pan = PannedTo(mouse, panStart)]
                  ELSE CanvasState, FALSE)
  /\ lastOp' = Op("mouseMove", currentChatId, mouse, isPanning)
  /\ UNCHANGED <<canvasMounted, isPanning, panStart, panOrigin, isSwitchingCanvas,
                 switchTimers, canvasAtUnmount>>
  /\ UNCHANGED <<chatVars, sizeVars, routeVars, sidebarVars, highlightVars>>

\* handleMouseUp (document mouseup)
HandleMouseUp ==
  /\ CanvasReady
  /\ Tick
  /\ isPanning' = FALSE
  /\ lastOp' = Op("mouseUp", currentChatId, currentCanvasId, isPanning)
  /\ UNCHANGED <<draggedText, sourceMsgId, sourceChatId, canvasMounted,
                 isInitialized, canvases, currentCanvasId, nodes, connections,
                 zoom, pan, panStart, panOrigin, isSwitchingCanvas, switchTimers,
                 canvasAtUnmount, everCreated>>
  /\ UNCHANGED <<chatVars, sizeVars, routeVars, sidebarVars, highlightVars>>

\* A handleBlockDrag that does not compare ids
BlockDraggedAll(ns, nodeId, newX, newY) ==
  [i \in DOMAIN ns |-> [ns[i] EXCEPT !.x = newX, !.y = newY]]

\* handleBlockDrag(nodeId, newX, newY)
BlockDragged(ns, nodeId, newX, newY) ==
  [i \in DOMAIN ns |->
     IF ns[i].id = nodeId THEN [ns[i] EXCEPT !.x = newX, !.y = newY] ELSE ns[i]]

\* handleBlockResize(nodeId, width, height)
BlockResized(ns, nodeId, width, height) ==
  [i \in DOMAIN ns |->
     IF ns[i].id = nodeId THEN [ns[i] EXCEPT !.width = width, !.height = height]
     ELSE ns[i]]

\* handleDeleteNode(nodeId): the node and the connections that touch it
NodeDeleted(ns, nodeId) == SelectSeq(ns, LAMBDA n : n.id # nodeId)
ConnectionsWithout(conns, nodeId) ==
  SelectSeq(conns, LAMBDA c : c.from # nodeId /\ c.to # nodeId)

\* TextBlock onDragEnd of block i with the drag offset -> handleBlockDrag
DragBlock(i, offset) ==
  /\ CanvasReady
  /\ i \in DOMAIN nodes
  /\ Tick
  /\ CanvasCommit([CanvasState EXCEPT
                     !.nodes = BlockDragged(nodes, nodes[i].id,
                                            RatAdd(nodes[i].x, Whole(offset[1])),
                                            RatAdd(nodes[i].y, Whole(offset[2])))],
                  TRUE)
  /\ lastOp' = Op("drag", currentChatId, nodes[i].id, TRUE)
  /\ UNCHANGED <<canvasMounted, isPanning, panStart, panOrigin, isSwitchingCanvas,
                 switchTimers, canvasAtUnmount>>
  /\ UNCHANGED <<chatVars, sizeVars, routeVars, sidebarVars, highlightVars>>

\* A resize gesture that follows the mouse without clamping
ResizeSizeUnclamped(width, height, delta) ==
  [width |-> width + delta[1], height |-> height + delta[2]]

\* TextBlock: the size a resize gesture holds after a mouse move by delta
ResizeSize(width, height, delta) ==
  [width |-> IF 200 >= (IF 600 <= width + delta[1] THEN 600 ELSE width + delta[1])
             THEN 200
             ELSE (IF 600 <= width + delta[1] THEN 600 ELSE width + delta[1]),
   height |-> IF 100 >= (IF 500 <= height + delta[2] THEN 500 ELSE height + delta[2])
              THEN 100
              ELSE (IF 500 <= height + delta[2] THEN 500 ELSE height + delta[2])]

\* TextBlock of block i: a resize gesture (mouse-down on the handle, the
\* moves in moved, mouse-up) -> handleBlockResize with the size held last
ResizeBlock(i, moved) ==
  /\ CanvasReady
  /\ i \in DOMAIN nodes
  /\ Tick
  /\ LET size == IF moved = <<>>
                 THEN [width |-> nodes[i].width, height |-> nodes[i].height]
                 ELSE ResizeSize(nodes[i].width, nodes[i].height, moved[Len(moved)])
     IN CanvasCommit([CanvasState EXCEPT
                        !.nodes = BlockResized(nodes, nodes[i].id,
                                               size.width, size.height)],
                     TRUE)
  /\ lastOp' = Op("resize", currentChatId, nodes[i].id, moved # <<>>)
  /\ UNCHANGED <<canvasMounted, isPanning, panStart, panOrigin, isSwitchingCanvas,
                 switchTimers, canvasAtUnmount>>
  /\ UNCHANGED <<chatVars, sizeVars, routeVars, sidebarVars, highlightVars>>

\* TextBlock delete button of block i -> handleDeleteNode
DeleteBlock(i) ==
  /\ CanvasReady
  /\ i \in DOMAIN nodes
  /\ Tick
  /\ CanvasCommit([CanvasState EXCEPT
                     !.nodes = NodeDeleted(nodes, nodes[i].id),
                     !.connections = ConnectionsWithout(connections, nodes[i].id)],
                  TRUE)
  /\ lastOp' = Op("deleteNode", currentChatId, nodes[i].id, TRUE)
  /\ UNCHANGED <<canvasMounted, isPanning, panStart, panOrigin, isSwitchingCanvas,
                 switchTimers, canvasAtUnmount>>
  /\ UNCHANGED <<chatVars, sizeVars, routeVars, sidebarVars, highlightVars>>

\* A handleCanvasSelect that loads the target and leaves the records alone
HandleCanvasSelectUnsaved(prev, canvasId, t) ==
  LET targetCanvas == SelectSeq(prev, LAMBDA c : c.id = canvasId)
  IN IF targetCanvas # <<>>
     THEN [CanvasState EXCEPT !.canvases = prev,
                              !.currentCanvasId = canvasId,
                              !.nodes = targetCanvas[1].nodes,
                              !.connections = targetCanvas[1].connections,
                              !.isSwitchingCanvas = TRUE]
     ELSE [CanvasState EXCEPT !.canvases = prev, !.isSwitchingCanvas = TRUE]

\* handleCanvasSelect(canvasId), run against the canvases state prev its
\* updater is applied to: the live lists (the ref's content) go into the
\* record of the current canvas and the lists of the target become live
HandleCanvasSelectOn(prev, canvasId, t) ==
  IF currentCanvasId # canvasId
  THEN LET updatedCanvases == SaveCurrentCanvas(prev, currentCanvasId, nodes, connections, t)
           targetCanvas == SelectSeq(updatedCanvases, LAMBDA c : c.id = canvasId)
       IN IF targetCanvas # <<>>
          THEN [CanvasState EXCEPT !.canvases = updatedCanvases,
                                   !.currentCanvasId = canvasId,
                                   !.nodes = targetCanvas[1].nodes,
                                   !.connections = targetCanvas[1].connections,
                                   !.isSwitchingCanvas = TRUE]
          ELSE [CanvasState EXCEPT !.canvases = updatedCanvases,
                                   !.isSwitchingCanvas = TRUE]
  ELSE LET canvas == SelectSeq(canvases, LAMBDA c : c.id = canvasId)
       IN IF canvas # <<>>
          THEN [CanvasState EXCEPT !.canvases = prev,
                                   !.currentCanvasId = canvasId,
                                   !.nodes = canvas[1].nodes,
                                   !.connections = canvas[1].connections,
                                   !.isSwitchingCanvas = TRUE]
          ELSE [CanvasState EXCEPT !.canvases = prev, !.isSwitchingCanvas = TRUE]

\* handleCanvasSelect from the canvas menu, and the timer it starts
HandleCanvasSelect(canvasId) ==
  /\ CanvasReady
  /\ Tick
  /\ CanvasCommit(HandleCanvasSelectOn(canvases, canvasId, now), TRUE)
  /\ isSwitchingCanvas' = TRUE
  /\ switchTimers' = switchTimers + 1
  /\ lastOp' = Op("canvasSelect", currentCanvasId, canvasId, currentCanvasId # canvasId)
  /\ UNCHANGED <<canvasMounted, isPanning, panStart, panOrigin, canvasAtUnmount>>
  /\ UNCHANGED <<chatVars, sizeVars, routeVars, sidebarVars, highlightVars>>

NewCanvasId(t) == <<"canvas", t>>

\* handleNewCanvas: newCanvas
NewCanvas(t) ==
  [id |-> NewCanvasId(t), title |-> "Canvas " \o ToString(Len(canvases) + 1),
   nodes |-> <<>>, connections |-> <<>>,
   createdAt |-> NewDate(t), lastModified |-> NewDate(t)]

\* handleNewCanvas
HandleNewCanvas ==
  /\ CanvasReady
  /\ Tick
  /\ CanvasCommit(HandleCanvasSelectOn(Append(canvases, NewCanvas(now)),
                                       NewCanvasId(now), now), TRUE)
  /\ isSwitchingCanvas' = TRUE
  /\ switchTimers' = switchTimers + 1
  /\ lastOp' = Op("newCanvas", currentCanvasId, NewCanvasId(now), TRUE)
  /\ UNCHANGED <<canvasMounted, isPanning, panStart, panOrigin, canvasAtUnmount>>
  /\ UNCHANGED <<chatVars, sizeVars, routeVars, sidebarVars, highlightVars>>

\* handleCanvasDelete past its guard, with the selection of a remaining
\* canvas left out
CanvasDeletedNoSelect(canvasId, t) ==
  [CanvasState EXCEPT !.canvases = SelectSeq(canvases, LAMBDA c : c.id # canvasId)]

\* handleCanvasDelete past its guard: the filter of the list and, when the
\* current canvas goes, handleCanvasSelect of the first remaining one
CanvasDeleted(canvasId, t) ==
  LET remainingCanvases == SelectSeq(canvases, LAMBDA c : c.id # canvasId)
  IN IF currentCanvasId = canvasId
     THEN HandleCanvasSelectOn(remainingCanvases, remainingCanvases[1].id, t)
     ELSE [CanvasState EXCEPT !.canvases = remainingCanvases]

\* handleCanvasDelete from the canvas menu
HandleCanvasDelete(canvasId) ==
  /\ CanvasReady
  /\ Tick
  /\ IF Len(canvases) <= 1
     THEN /\ CanvasCommit(CanvasState, FALSE)
          /\ UNCHANGED <<isSwitchingCanvas, switchTimers>>
          /\ lastOp' = Op("canvasDelete", currentCanvasId, canvasId, FALSE)
     ELSE IF currentCanvasId = canvasId
     THEN /\ CanvasCommit(CanvasDeleted(canvasId, now), TRUE)
          /\ isSwitchingCanvas' = TRUE
          /\ switchTimers' = switchTimers + 1
          /\ lastOp' = Op("canvasDelete", currentCanvasId, canvasId, TRUE)
     ELSE /\ CanvasCommit(CanvasDeleted(canvasId, now), FALSE)
          /\ UNCHANGED <<isSwitchingCanvas, switchTimers>>
          /\ lastOp' = Op("canvasDelete", currentCanvasId, canvasId, TRUE)
  /\ UNCHANGED <<canvasMounted, isPanning, panStart, panOrigin, canvasAtUnmount>>
  /\ UNCHANGED <<chatVars, sizeVars, routeVars, sidebarVars, highlightVars>>

\* The callback of the timer a canvas switch started:
\* setIsSwitchingCanvas(false), after which the save effect runs
SwitchTimerFires ==
  /\ canvasMounted
  /\ switchTimers > 0
  /\ Tick
  /\ switchTimers' = switchTimers - 1
  /\ isSwitchingCanvas' = FALSE
  /\ CanvasCommit([CanvasState EXCEPT !.isSwitchingCanvas = FALSE], isSwitchingCanvas)
  /\ lastOp' = Op("switchTimer", currentCanvasId, currentCanvasId, isSwitchingCanvas)
  /\ UNCHANGED <<canvasMounted, isPanning, panStart, panOrigin, canvasAtUnmount>>
  /\ UNCHANGED <<chatVars, sizeVars, routeVars, sidebarVars, highlightVars>>

\* CanvasPanel.handleBlockClick(nodeId): the arguments of the call of
\* onBlockClick it makes, or none when no node has the id or the node has no
\* source message id
BlockClickCall(ns, nodeId) ==
  LET node == SelectSeq(ns, LAMBDA n : n.id = nodeId)
  IN IF node # <<>> /\ node[1].sourceMessageId # <<>>
     THEN << [messageId |-> node[1].sourceMessageId, chatId |-> node[1].sourceChatId] >>
     ELSE <<>>

\* an App.handleBlockClick that never calls setCurrentChatId
ActiveAfterBlockClickStays(chatId, current) == current

\* App.handleBlockClick(messageId, chatId): the active chat it leaves
ActiveAfterBlockClick(chatId, current) ==
  IF chatId # <<>> /\ chatId[1] # current THEN chatId[1] ELSE current

\* TextBlock onClick of block i -> CanvasPanel.handleBlockClick ->
\* App.handleBlockClick, and the render of the App and the ChatPanel that
\* follows when a state of the App changed
HandleBlockClick(i) ==
  /\ CanvasReady
  /\ i \in DOMAIN nodes
  /\ Tick
  /\ LET call == BlockClickCall(nodes, nodes[i].id)
     IN IF call # <<>>
        THEN LET active == ActiveAfterBlockClick(call[1].chatId, currentChatId)
                 switched == active # currentChatId
             IN /\ currentChatId' = active
                /\ highlightedMessageId' = call[1].messageId
                /\ clearTimer' = IF switched \/ highlightedMessageId # call[1].messageId
                                 THEN HighlightDuration ELSE clearTimer
                /\ IF isLoaded
                   THEN Commit(chatSessions, active)
                   ELSE UNCHANGED <<chatSessions, storage, lastSaved>>
                /\ lastOp' = Op("blockClick", currentChatId, nodes[i].id, TRUE)
        ELSE /\ lastOp' = Op("blockClick", currentChatId, nodes[i].id, FALSE)
             /\ UNCHANGED <<currentChatId, highlightVars, chatSessions, storage, lastSaved>>
  /\ UNCHANGED <<storageFaults, queued, isLoaded, turns, inflight, submitted>>
  /\ UNCHANGED <<canvasVars, sizeVars, routeVars, sidebarVars>>

\* A second passes while the clear timer of the highlight effect is pending;
\* when it has run down, onHighlightComplete sets the highlight to null
HighlightTimePasses ==
  /\ clearTimer > 0
  /\ clearTimer' = clearTimer - 1
  /\ highlightedMessageId' = IF clearTimer = 1 THEN <<>> ELSE highlightedMessageId
  /\ lastOp' = Op("timePasses", currentChatId, currentChatId, clearTimer = 1)
  /\ UNCHANGED <<now, budget, chatVars, canvasVars, sizeVars, routeVars, sidebarVars>>

\* The page is reloaded: every component is constructed again, storage stays
Reload ==
  /\ isLoaded
  /\ Tick
  /\ chatSessions' = <<>>
  /\ isLoaded' = FALSE
  /\ currentChatId' = ProjectChatId
  /\ turns' = <<>>
  /\ inflight' = <<>>
  /\ draggedText' = <<>>
  /\ sourceMsgId' = <<>>
  /\ sourceChatId' = <<>>
  /\ canvasMounted' = TRUE
  /\ canvasAtUnmount' = IF canvasMounted THEN canvases ELSE canvasAtUnmount
  /\ everCreated' = <<>>
  /\ CanvasConstructed(now)
  /\ lastOp' = Op("reload", currentChatId, ProjectChatId, TRUE)
  /\ highlightedMessageId' = <<>>
  /\ clearTimer' = 0
  /\ UNCHANGED <<storage, storageFaults, queued, lastSaved, submitted>>
  /\ UNCHANGED <<sizeVars, routeVars, sidebarVars>>

----------------------------------------------------------------------------
(* Specifications *)

\* Every component as constructed, before any effect has run
Constructed(events) ==
  /\ now = StartTime
  /\ budget = events
  /\ lastOp = NoOp
  /\ storage = <<>>
  /\ storageFaults = NoFaults
  /\ chatSessions = <<>>
  /\ queued = <<>>
  /\ isLoaded = FALSE
  /\ currentChatId = ProjectChatId
  /\ turns = <<>>
  /\ inflight = <<>>
  /\ lastSaved = <<>>
  /\ submitted = <<>>
  /\ draggedText = <<>>
  /\ sourceMsgId = <<>>
  /\ sourceChatId = <<>>
  /\ canvasMounted = TRUE
  /\ isInitialized = FALSE
  /\ canvases = <<DefaultCanvas(StartTime)>>
  /\ currentCanvasId = DefaultCanvasId
  /\ nodes = <<>>
  /\ connections = <<>>
  /\ zoom = Whole(1)
  /\ pan = [x |-> Whole(0), y |-> Whole(0)]
  /\ isPanning = FALSE
  /\ panStart = [x |-> Whole(0), y |-> Whole(0)]
  /\ panOrigin = NoPanOrigin
  /\ isSwitchingCanvas = FALSE
  /\ switchTimers = 0
  /\ canvasAtUnmount = <<>>
  /\ everCreated = <<>>

NoSizes ==
  /\ sizeTexts = <<>> /\ sizeOut = <<>> /\ calls = <<>>
  /\ highlightedMessageId = <<>> /\ clearTimer = 0
  /\ searchQuery = <<>> /\ sidebarSessions = <<>> /\ sortedChats = <<>>

\* The session store and the chat panel
Init == Constructed(MaxEvents) /\ NoSizes

Next ==
  \/ LoadSessions
  \/ \E input \in ChatInputs : HandleKeyPress(input)
  \/ \E input \in ChatInputs : ClickSend(input)
  \/ \E i \in DOMAIN inflight : OnFinish(i)
  \/ \E chatId \in SessionIds(chatSessions) : HandleChatSelect(chatId)
  \/ HandleNewChatClick
  \/ \E chatId \in SessionIds(chatSessions) : HandleDeleteChat(chatId)
  \/ Reload

Spec == Init /\ [][Next]_vars

\* The session store over a localStorage that other scripts of the origin
\* write to and whose getItem and setItem may throw
CorruptItems ==
  LET good == StringifySession(NewChat(DefaultChatId, StartTime))
      bad == [id |-> NewChatId(StartTime), title |-> "New Chat",
              lastActivity |-> DateToJSON(NewDate(StartTime))]
  IN { <<bad>>, <<good, bad>> }

\* the item under 'chat-sessions' is written by something other than the hook
StorageOverwritten(item) ==
  /\ Tick
  /\ storage' = <<item>>
  /\ lastOp' = Op("foreignWrite", currentChatId, currentChatId, TRUE)
  /\ UNCHANGED <<storageFaults, queued, chatSessions, isLoaded, currentChatId, turns,
                 inflight, lastSaved, submitted>>
  /\ UNCHANGED <<canvasVars, sizeVars, routeVars, sidebarVars, highlightVars>>

\* localStorage starts or stops throwing (access denied, quota exceeded)
StorageFaultChanges(faults) ==
  /\ faults # storageFaults
  /\ Tick
  /\ storageFaults' = faults
  /\ lastOp' = Op("fault", currentChatId, currentChatId, TRUE)
  /\ UNCHANGED <<storage, queued, chatSessions, isLoaded, currentChatId, turns,
                 inflight, lastSaved, submitted>>
  /\ UNCHANGED <<canvasVars, sizeVars, routeVars, sidebarVars, highlightVars>>

InitFaults == Constructed(MaxFaultEvents) /\ NoSizes

NextFaults ==
  \/ LoadSessions
  \/ \E input \in ChatInputs : HandleKeyPress(input)
  \/ \E i \in DOMAIN inflight : OnFinish(i)
  \/ \E chatId \in SessionIds(chatSessions) : HandleChatSelect(chatId)
  \/ HandleNewChatClick
  \/ \E chatId \in SessionIds(chatSessions) : HandleDeleteChat(chatId)
  \/ Reload
  \/ \E item \in CorruptItems : StorageOverwritten(item)
  \/ \E faults \in [getItem : BOOLEAN, setItem : BOOLEAN] : StorageFaultChanges(faults)

SpecFaults == InitFaults /\ [][NextFaults]_vars

\* ensureChatExists called by the component that holds the hook, any number
\* of times in one render, and the render that follows
EnsureIds == { ProjectChatId, DefaultChatId, NewChatId(StartTime) }

\* the updaters prev => [chat, ...prev] queued by addChatSession, applied in order
RECURSIVE AddAll(_, _)
AddAll(ss, chats) ==
  IF chats = <<>> THEN ss ELSE AddAll(AddChatSession(ss, Head(chats)), Tail(chats))

\* ensureChatExists(chatId) of the current render: getChatSession looks the id
\* up in the chatSessions of that render
EnsureChatExistsCalled(chatId) ==
  /\ isLoaded
  /\ Tick
  /\ LET existingChat == chatId \in SessionIds(chatSessions)
     IN /\ queued' = IF existingChat THEN queued
                     ELSE Append(queued, NewChat(chatId, now))
        /\ lastOp' = Op("ensure", chatId, chatId, ~existingChat)
  /\ UNCHANGED <<storage, storageFaults, chatSessions, isLoaded, currentChatId,
                 turns, inflight, lastSaved, submitted>>
  /\ UNCHANGED <<canvasVars, sizeVars, routeVars, sidebarVars, highlightVars>>

\* React renders with the queued updates applied, and the effects run
RenderQueued ==
  /\ isLoaded
  /\ queued # <<>>
  /\ Tick
  /\ Commit(AddAll(chatSessions, queued), currentChatId)
  /\ queued' = <<>>
  /\ lastOp' = Op("render", currentChatId, currentChatId, TRUE)
  /\ UNCHANGED <<storageFaults, isLoaded, currentChatId, turns, inflight, submitted>>
  /\ UNCHANGED <<canvasVars, sizeVars, routeVars, sidebarVars, highlightVars>>

InitEnsure == Constructed(MaxEnsureEvents) /\ NoSizes

NextEnsure ==
  \/ LoadSessions
  \/ \E chatId \in EnsureIds : EnsureChatExistsCalled(chatId)
  \/ RenderQueued

SpecEnsure == InitEnsure /\ [][NextEnsure]_vars

\* Blocks made from selections in chats, clicked while chats are selected
\* and deleted; the clear timer of a highlight runs down when nothing else
\* happens
HighlightMessageIds == { <<"ai", 1>>, <<"ai", 2>> }

InitHighlight == Constructed(MaxHighlightEvents) /\ NoSizes

NextHighlight ==
  \/ LoadSessions
  \/ CanvasMountEffects
  \/ \E m \in HighlightMessageIds : HandleTextSelection(m, <<Ch(5)>>)
  \/ \E i \in DOMAIN nodes : HandleBlockClick(i)
  \/ \E chatId \in SessionIds(chatSessions) : HandleChatSelect(chatId)
  \/ \E chatId \in SessionIds(chatSessions) : HandleDeleteChat(chatId)
  \/ HighlightTimePasses

SpecHighlight == InitHighlight /\ [][NextHighlight]_vars /\ WF_vars(HighlightTimePasses)

\* The canvas panel, with the App state it is handed
CanvasSelections == { <<Sp(2)>>, <<Ch(5), Sp(1)>>, <<Ch(150), Sp(1), Ch(10)>> }
CanvasMessageIds == { <<"ai", 1>> }
MousePositions == { <<100, 50>>, <<320, 270>> }
DragOffsets == { <<40, -30>> }
ResizeMoves == { <<>>, << <<30, 20>> >>, << <<5, 5>>, <<-500, 900>> >>,
                 << <<900, -500>> >> }

InitCanvas == Constructed(MaxCanvasEvents) /\ NoSizes

NextCanvas ==
  \/ CanvasMountEffects
  \/ \E m \in CanvasMessageIds : \E sel \in CanvasSelections : HandleTextSelection(m, sel)
  \/ CanvasToggle
  \/ HandleZoomIn
  \/ HandleZoomOut
  \/ \E deltaY \in {-100, 100} : \E over \in BOOLEAN : HandleWheel(deltaY, over)
  \/ \E mouse \in MousePositions : \E bg \in BOOLEAN : HandleCanvasMouseDown(mouse, bg)
  \/ \E mouse \in MousePositions : HandleMouseMove(mouse)
  \/ HandleMouseUp
  \/ \E i \in DOMAIN nodes : \E offset \in DragOffsets : DragBlock(i, offset)
  \/ \E i \in DOMAIN nodes : \E moved \in ResizeMoves : ResizeBlock(i, moved)
  \/ \E i \in DOMAIN nodes : DeleteBlock(i)

SpecCanvas == InitCanvas /\ [][NextCanvas]_vars

\* The canvas menu: canvases are added, selected and deleted while blocks
\* are created, moved, resized and deleted
SwitchSelections == { <<Ch(5)>> }

InitSwitch == Constructed(MaxSwitchEvents) /\ NoSizes

NextSwitch ==
  \/ CanvasMountEffects
  \/ \E m \in CanvasMessageIds : \E sel \in SwitchSelections : HandleTextSelection(m, sel)
  \/ \E i \in DOMAIN nodes : \E offset \in DragOffsets : DragBlock(i, offset)
  \/ \E i \in DOMAIN nodes : ResizeBlock(i, << <<30, 20>> >>)
  \/ \E i \in DOMAIN nodes : DeleteBlock(i)
  \/ HandleNewCanvas
  \/ \E canvasId \in {canvases[i].id : i \in DOMAIN canvases} : HandleCanvasSelect(canvasId)
  \/ \E canvasId \in {canvases[i].id : i \in DOMAIN canvases} : HandleCanvasDelete(canvasId)
  \/ SwitchTimerFires

SpecSwitch == InitSwitch /\ [][NextSwitch]_vars

\* The zoom controls of the canvas panel, followed over their whole range
InitZoom == Constructed(MaxZoomEvents) /\ NoSizes

NextZoom ==
  \/ CanvasMountEffects
  \/ HandleZoomIn
  \/ HandleZoomOut
  \/ \E deltaY \in {-100, 100} : \E over \in BOOLEAN : HandleWheel(deltaY, over)

SpecZoom == InitZoom /\ [][NextZoom]_vars

\* calculateInitialSize applied to two texts
SizeCharCounts == {c \in 0..MaxSizeChars : c % 60 \in {40, 41}}
SizeSpaceCounts == {n \in 0..MaxSizeSpaces : n % 12 \in {7, 8}}
SizeCounts == {p \in SizeCharCounts \X SizeSpaceCounts : p[2] + 2 <= p[1]}
SizeTexts ==
  {<<Ch(1), Sp(p[2]), Ch(p[1] - p[2] - 1)>> : p \in SizeCounts}
  \cup {<<Ch(p[1] - p[2] - 1), Sp(p[2]), Ch(1)>> : p \in SizeCounts}

InitSize ==
  /\ Constructed(0)
  /\ sizeTexts \in SizeTexts \X SizeTexts
  /\ sizeOut = <<>>
  /\ calls = <<>>
  /\ highlightedMessageId = <<>>
  /\ clearTimer = 0
  /\ searchQuery = <<>> /\ sidebarSessions = <<>> /\ sortedChats = <<>>

ApplySize ==
  /\ sizeOut = <<>>
  /\ sizeOut' = <<CalculateInitialSize(sizeTexts[1]), CalculateInitialSize(sizeTexts[2])>>
  /\ UNCHANGED <<now, budget, lastOp, chatVars, canvasVars, sizeTexts, routeVars, sidebarVars, highlightVars>>

NextSize == ApplySize

SpecSize == InitSize /\ [][NextSize]_vars

----------------------------------------------------------------------------
(* The sidebar: the list it displays.  Here a string is the sequence of its *)
(* characters, over the letters a and b in both cases.                     *)

\* String.prototype.toLowerCase
ToLowerCase(str) ==
  [i \in DOMAIN str |-> IF str[i] = "A" THEN "a" ELSE IF str[i] = "B" THEN "b" ELSE str[i]]

\* String.prototype.includes
Includes(str, search) ==
  \E k \in 0..(Len(str) - Len(search)) : SubSeq(str, k + 1, k + Len(search)) = search

\* A filter that compares the title and the contents as they are written
FilteredChatsAsWritten(ss, query) ==
  SelectSeq(ss, LAMBDA chat :
    \/ Includes(chat.title, query)
    \/ \E j \in DOMAIN chat.messages : Includes(chat.messages[j].content, query))

\* filteredChats
FilteredChats(ss, query) ==
  SelectSeq(ss, LAMBDA chat :
    \/ Includes(ToLowerCase(chat.title), ToLowerCase(query))
    \/ \E j \in DOMAIN chat.messages :
         Includes(ToLowerCase(chat.messages[j].content), ToLowerCase(query)))

\* Array.prototype.sort with (a, b) => b.lastActivity.getTime() -
\* a.lastActivity.getTime(): a stable sort, so chat goes behind every element
\* that the comparator does not put after it
RECURSIVE SortInsert(_, _)
SortInsert(sorted, chat) ==
  IF sorted = <<>> THEN <<chat>>
  ELSE IF chat.lastActivity[2] - Head(sorted).lastActivity[2] > 0
       THEN <<chat>> \o sorted
       ELSE <<Head(sorted)>> \o SortInsert(Tail(sorted), chat)

RECURSIVE SortedChats(_)
\* sortedChats: [...filteredChats].sort(..)
SortedChats(filtered) ==
  IF filtered = <<>> THEN <<>>
  ELSE SortInsert(SortedChats(SubSeq(filtered, 1, Len(filtered) - 1)),
                  filtered[Len(filtered)])

\* the sessions the sidebar may be handed
SidebarChat(n, title, contents, ms) ==
  [id |-> <<"chat", n>>, title |-> title,
   messages |-> [j \in DOMAIN contents |->
                   [id |-> <<"user", j>>, type |-> "user", content |-> contents[j],
                    timestamp |-> NewDate(ms)]],
   lastActivity |-> NewDate(ms)]

SidebarChats ==
  { SidebarChat(1, <<"A", "b">>, <<>>, 2000),
    SidebarChat(2, <<"b">>, << <<"a", "B", "A">> >>, 3000),
    SidebarChat(3, <<"B">>, << <<"a">>, <<"b", "A">> >>, 1000),
    SidebarChat(4, <<>>, <<>>, 2000) }

SidebarArrays ==
  { ss \in UNION { [1..n -> SidebarChats] : n \in 0..MaxSidebarSessions } :
      \A i, j \in DOMAIN ss : i # j => ss[i].id # ss[j].id }

SearchQueries == { <<>>, <<"a">>, <<"A", "B">>, <<"b", "a">>, <<"b", "b">> }

\* ChatSidebar renders for the first time
RenderSidebar ==
  /\ sortedChats = <<>>
  /\ sortedChats' = <<SortedChats(FilteredChats(sidebarSessions, searchQuery))>>
  /\ UNCHANGED <<searchQuery, sidebarSessions>>
  /\ UNCHANGED <<now, budget, lastOp, chatVars, canvasVars, sizeVars, routeVars,
                 highlightVars>>

\* the search input changes (or is cleared), and ChatSidebar renders
SetSearchQuery(query) ==
  /\ sortedChats # <<>>
  /\ searchQuery' = query
  /\ sortedChats' = <<SortedChats(FilteredChats(sidebarSessions, query))>>
  /\ UNCHANGED sidebarSessions
  /\ UNCHANGED <<now, budget, lastOp, chatVars, canvasVars, sizeVars, routeVars,
                 highlightVars>>

InitSidebar ==
  /\ Constructed(0)
  /\ sizeTexts = <<>> /\ sizeOut = <<>> /\ calls = <<>>
  /\ highlightedMessageId = <<>> /\ clearTimer = 0
  /\ searchQuery = <<>>
  /\ sidebarSessions \in SidebarArrays
  /\ sortedChats = <<>>

NextSidebar ==
  \/ RenderSidebar
  \/ \E query \in SearchQueries : SetSearchQuery(query)

SpecSidebar == InitSidebar /\ [][NextSidebar]_vars

----------------------------------------------------------------------------
(* The chat route: POST, followed from one await to the next *)

\* the request bodies sent to the route: text that is not JSON, the JSON
\* null, an object without messages, an object with messages
RequestBodies == { "not json", "null", "{}", "{messages}" }

\* `const { messages } = await req.json()` throws: req.json() rejects on
\* text that is not JSON, and null cannot be destructured
BodyThrows(body) == body \in { "not json", "null" }

\* the messages destructured from the body: <<>> is undefined
BodyMessages(body) == IF body = "{messages}" THEN <<"messages">> ELSE <<>>

\* the arguments streamText is called with
StreamTextCall(messages) ==
  [model |-> "gemini-2.0-flash", messages |-> messages, maxTokens |-> 1000]

\* result.toDataStreamResponse()
DataStreamResponse(result) == [status |-> 200, body |-> "", stream |-> <<result>>]

\* A catch block that throws the error on
Rethrown(call) == [call EXCEPT !.pc = "thrown"]

\* the catch block: new Response('Error processing request', { status: 500 })
Caught(call) ==
  [call EXCEPT !.pc = "returned",
               !.response = <<[status |-> 500, body |-> "Error processing request",
                               stream |-> <<>>]>>]

\* a request arrives and POST runs up to `await req.json()`
Post(body) ==
  /\ Len(calls) < MaxRouteCalls
  /\ Tick
  /\ calls' = Append(calls, [body |-> body, pc |-> "req.json", messages |-> <<>>,
                             upstreamFailed |-> FALSE, response |-> <<>>])
  /\ UNCHANGED <<lastOp, chatVars, canvasVars, sizeVars, highlightVars, sidebarVars>>

\* req.json() settles: POST runs on to `await streamText(..)`, or to the catch
ReqJsonSettles(i) ==
  /\ calls[i].pc = "req.json"
  /\ Tick
  /\ calls' = [calls EXCEPT ![i] =
                 IF BodyThrows(calls[i].body) THEN Caught(calls[i])
                 ELSE [calls[i] EXCEPT !.pc = "streamText",
                                       !.messages = BodyMessages(calls[i].body)]]
  /\ UNCHANGED <<lastOp, chatVars, canvasVars, sizeVars, highlightVars, sidebarVars>>

\* streamText settles: POST returns the data stream response, or runs the catch
StreamTextSettles(i, fulfilled) ==
  /\ calls[i].pc = "streamText"
  /\ Tick
  /\ calls' = [calls EXCEPT ![i] =
                 IF fulfilled
                 THEN [calls[i] EXCEPT
                         !.pc = "returned",
                         !.response = <<DataStreamResponse(StreamTextCall(calls[i].messages))>>]
                 ELSE Caught([calls[i] EXCEPT !.upstreamFailed = TRUE])]
  /\ UNCHANGED <<lastOp, chatVars, canvasVars, sizeVars, highlightVars, sidebarVars>>

InitRoute == Constructed(MaxRouteEvents) /\ NoSizes

NextRoute ==
  \/ \E body \in RequestBodies : Post(body)
  \/ \E i \in DOMAIN calls : ReqJsonSettles(i)
  \/ \E i \in DOMAIN calls : \E fulfilled \in BOOLEAN : StreamTextSettles(i, fulfilled)

SpecRoute == InitRoute /\ [][NextRoute]_vars

----------------------------------------------------------------------------
(* Properties of the session store and the chat panel *)

UserIds(msgs) ==
  LET users == SelectSeq(msgs, LAMBDA m : m.type = "user")
  IN [i \in DOMAIN users |-> users[i].id]

MessageIds(msgs) == {msgs[i].id : i \in DOMAIN msgs}

SubmittedTo(chatId) ==
  LET mine == SelectSeq(submitted, LAMBDA r : r.chat = chatId)
  IN [i \in DOMAIN mine |-> mine[i].id]

IsPrefix(a, b) == Len(a) <= Len(b) /\ a = SubSeq(b, 1, Len(a))

\* C1: the record of every session in the store holds exactly the user
\* messages submitted while that session was the active one, each once and
\* in submission order.
C1_SessionHoldsItsSubmissions ==
  isLoaded =>
    \A i \in DOMAIN chatSessions :
      UserIds(chatSessions[i].messages) = SubmittedTo(chatSessions[i].id)

\* C2: a submit to a session that already holds messages keeps every one of
\* them, unchanged and in order, ahead of the submitted message.
C2_SubmitOnlyAppends ==
  [][(isLoaded /\ lastOp'.op = "submit" /\ lastOp'.done) =>
       \A i \in DOMAIN chatSessions : \A j \in DOMAIN chatSessions' :
         (chatSessions[i].id = currentChatId /\ chatSessions'[j].id = currentChatId
            /\ chatSessions[i].messages # <<>>) =>
           /\ IsPrefix(chatSessions[i].messages, chatSessions'[j].messages)
           /\ chatSessions'[j].messages[Len(chatSessions'[j].messages)].id
                = lastOp'.target]_vars

\* C3: no message id is in the message lists of two sessions, and a message
\* submitted while session S was active is in no session but S.
C3_MessageInOneSession ==
  /\ \A i \in DOMAIN chatSessions : \A j \in DOMAIN chatSessions :
       i # j => MessageIds(chatSessions[i].messages)
                  \cap MessageIds(chatSessions[j].messages) = {}
  /\ \A k \in DOMAIN submitted : \A i \in DOMAIN chatSessions :
       chatSessions[i].id # submitted[k].chat
         => submitted[k].id \notin MessageIds(chatSessions[i].messages)

\* C4: a delete of the active session navigates to a session that is in the
\* store afterwards and is not the deleted one: one that was already there
\* when any remains, a freshly added one otherwise.
C4_DeleteActiveSelectsExisting ==
  [][(lastOp'.op = "delete" /\ lastOp'.done) =>
       /\ lastOp'.chat = currentChatId
       /\ currentChatId' = lastOp'.target
       /\ lastOp'.target \in SessionIds(chatSessions')
       /\ lastOp'.target # lastOp'.chat
       /\ lastOp'.chat \notin SessionIds(chatSessions')
       /\ IF SessionIds(chatSessions) \ {lastOp'.chat} # {}
          THEN lastOp'.target \in SessionIds(chatSessions)
          ELSE lastOp'.target \notin SessionIds(chatSessions)]_vars

C4_Witness ==
  /\ lastOp.op = "delete" /\ lastOp.done
  /\ currentChatId = lastOp.target
  /\ Len(chatSessions) >= 2

\* C5: the array the load effect builds from the stored item is equal, field
\* for field, to the array that was serialized into it.
C5_LoadEqualsPersisted ==
  (lastOp.op = "load" /\ lastOp.done) => lastOp.loaded = lastOp.persisted

C5_Witness ==
  /\ lastOp.op = "load" /\ lastOp.done
  /\ Len(lastOp.loaded) >= 2
  /\ \E i \in DOMAIN lastOp.loaded :
       /\ Len(lastOp.loaded[i].messages) >= 2
       /\ lastOp.loaded[i].lastActivity[2] % 1000 # 0

----------------------------------------------------------------------------
(* Properties of the canvas panel *)

CurrentCanvas == SelectSeq(canvases, LAMBDA c : c.id = currentCanvasId)

NodesOf(cs) == [i \in DOMAIN cs |-> [id |-> cs[i].id, nodes |-> cs[i].nodes]]

InZoomRange(z) == RatLeq(<<1, 2>>, z) /\ RatLeq(z, Whole(3))

\* C7: the zoom of the panel is at least 0.5 and at most 3 in every state,
\* whatever wheel events, zoom-in clicks and zoom-out clicks came before.
C7_ZoomInRange == InZoomRange(zoom)

C7_Witness ==
  /\ lastOp.op = "zoomIn"
  /\ zoom = Whole(3)

\* C8: a hand-off of non-blank selected text to a mounted canvas adds
\* exactly one node, with that text, to the live nodes and to the record of
\* the current canvas, and leaves no pending text or source ids; the events
\* that re-run the creating effect (zoom, pan, move, resize) add none.
C8_OneNodePerHandOff ==
  [][IF lastOp'.op = "textDrag" /\ lastOp'.done /\ canvasMounted
     THEN /\ Len(nodes') = Len(nodes) + 1
          /\ SubSeq(nodes', 1, Len(nodes)) = nodes
          /\ nodes'[Len(nodes')].id = lastOp'.target
          /\ CurrentCanvas'[1].nodes = nodes'
          /\ draggedText' = <<>>
          /\ sourceMsgId' = <<>>
          /\ sourceChatId' = <<>>
     ELSE lastOp'.op \in {"zoomIn", "zoomOut", "wheel", "mouseDown", "mouseMove",
                          "mouseUp", "drag", "resize"}
            => Len(nodes') = Len(nodes)]_vars

C8_Witness ==
  /\ lastOp.op = "textDrag" /\ lastOp.done /\ canvasMounted
  /\ Len(nodes) = 2
  /\ zoom # Whole(1)
  /\ draggedText = <<>>

SameCounts(a, b) == TextLength(a) = TextLength(b) /\ SplitLength(a) = SplitLength(b)

FewerCounts(a, b) == TextLength(a) <= TextLength(b) /\ SplitLength(a) <= SplitLength(b)

\* C9: texts with the same character count and the same count of pieces
\* between spaces get the same initial size; the width is between 240 and
\* 400 and the height between 120 and 300; and a text with no fewer
\* characters and no fewer pieces gets no smaller a width or height.
C9_SizeFromCounts ==
  sizeOut # <<>> =>
    /\ SameCounts(sizeTexts[1], sizeTexts[2]) => sizeOut[1] = sizeOut[2]
    /\ \A i \in {1, 2} :
         /\ 240 <= sizeOut[i].width /\ sizeOut[i].width <= 400
         /\ 120 <= sizeOut[i].height /\ sizeOut[i].height <= 300
    /\ FewerCounts(sizeTexts[1], sizeTexts[2]) =>
         /\ sizeOut[1].width <= sizeOut[2].width
         /\ sizeOut[1].height <= sizeOut[2].height

C9_Witness ==
  /\ sizeOut # <<>>
  /\ sizeTexts[1] # sizeTexts[2]
  /\ SameCounts(sizeTexts[1], sizeTexts[2])
  /\ sizeOut[1] = [width |-> 400, height |-> 300]

NodeCentre(n) ==
  [x |-> RatAdd(n.x, Rat(n.width, 2)), y |-> RatAdd(n.y, Rat(n.height, 2))]

ViewportCentre == [x |-> Rat(Viewport.width, 2), y |-> Rat(Viewport.height, 2)]

\* C10: the node made from text handed to a mounted canvas is drawn with
\* its centre on the centre of the viewport, at every pan and zoom.
C10_DroppedNodeCentred ==
  (lastOp.op = "textDrag" /\ lastOp.done /\ canvasMounted) =>
    ToScreen(NodeCentre(nodes[Len(nodes)])) = ViewportCentre

\* history: how many nodes were created on the canvas of everCreated[k]
\* before that one
CreationIndex(k) ==
  Cardinality({j \in 1..(k - 1) : everCreated[j].canvas = everCreated[k].canvas})

AllNodeLists == {nodes} \cup {canvases[i].nodes : i \in DOMAIN canvases}

\* C11: the k-th node created on a canvas, counted from 0 over every node
\* ever created there, has the palette entry k mod 10 as its colour, whatever
\* nodes were deleted in between.
C11_ColourByCreationIndex ==
  \A k \in DOMAIN everCreated : \A ns \in AllNodeLists : \A i \in DOMAIN ns :
    ns[i].id = everCreated[k].id
      => ns[i].color = Colors[(CreationIndex(k) % Len(Colors)) + 1]

RecordOf(cs, canvasId) == SelectSeq(cs, LAMBDA c : c.id = canvasId)

\* C12: a switch from canvas A to canvas B (by a selection in the menu or by
\* a new canvas) leaves in A's record the node and connection lists that
\* were live when it happened and makes the lists of B's record the live
\* ones; and no step changes the lists in the record of a canvas that is not
\* the current one, so that A -> B -> A brings back A's nodes as they were.
C12_SwitchStoresAndLoads ==
  [][/\ (lastOp'.op \in {"canvasSelect", "newCanvas"} /\ lastOp'.done) =>
          /\ lastOp'.chat = currentCanvasId
          /\ Len(RecordOf(canvases', lastOp'.chat)) = 1
          /\ RecordOf(canvases', lastOp'.chat)[1].nodes = nodes
          /\ RecordOf(canvases', lastOp'.chat)[1].connections = connections
          /\ currentCanvasId' = lastOp'.target
          /\ Len(RecordOf(canvases', lastOp'.target)) = 1
          /\ nodes' = RecordOf(canvases', lastOp'.target)[1].nodes
          /\ connections' = RecordOf(canvases', lastOp'.target)[1].connections
          /\ lastOp'.op = "canvasSelect" =>
               nodes' = RecordOf(canvases, lastOp'.target)[1].nodes
     /\ \A i \in DOMAIN canvases : \A j \in DOMAIN canvases' :
          (canvases[i].id = canvases'[j].id /\ canvases[i].id # currentCanvasId) =>
            /\ canvases'[j].nodes = canvases[i].nodes
            /\ canvases'[j].connections = canvases[i].connections]_vars

C12_Witness ==
  /\ lastOp.op = "canvasSelect" /\ lastOp.done
  /\ isSwitchingCanvas
  /\ nodes # <<>>
  /\ RecordOf(canvases, lastOp.chat)[1].nodes # <<>>
  /\ RecordOf(canvases, lastOp.chat)[1].nodes # nodes

NodeIds(ns) == {ns[i].id : i \in DOMAIN ns}

\* C13: no node id is in the node lists of two canvas records; the live
\* nodes are in no record but that of the current canvas; and a node created
\* while canvas C was current is in no record but that of C.
C13_NodeInOneCanvas ==
  /\ \A i \in DOMAIN canvases : \A j \in DOMAIN canvases :
       i # j => NodeIds(canvases[i].nodes) \cap NodeIds(canvases[j].nodes) = {}
  /\ \A i \in DOMAIN canvases :
       canvases[i].id # currentCanvasId
         => NodeIds(canvases[i].nodes) \cap NodeIds(nodes) = {}
  /\ \A k \in DOMAIN everCreated : \A i \in DOMAIN canvases :
       canvases[i].id # everCreated[k].canvas
         => everCreated[k].id \notin NodeIds(canvases[i].nodes)

C13_Witness ==
  /\ Len(canvases) >= 2
  /\ isSwitchingCanvas
  /\ nodes # <<>>
  /\ \E i \in DOMAIN canvases :
       canvases[i].id # currentCanvasId /\ canvases[i].nodes # <<>>
  /\ \E k \in DOMAIN everCreated : \E j \in DOMAIN everCreated :
       everCreated[k].canvas # everCreated[j].canvas

CanvasIds(cs) == {cs[i].id : i \in DOMAIN cs}

\* C27: in every state reached by new-canvas, select-canvas and delete-canvas
\* operations there is at least one canvas and currentCanvasId is the id of a
\* canvas of the list; a delete while one canvas remains changes neither the
\* list nor the current canvas nor the live nodes; and a delete of the
\* current canvas makes a canvas of the remaining list current without
\* changing the nodes in the record of any remaining canvas.
C27_CurrentCanvasExists ==
  /\ [](Len(canvases) >= 1 /\ currentCanvasId \in CanvasIds(canvases))
  /\ [][lastOp'.op = "canvasDelete" =>
          /\ Len(canvases) <= 1 =>
               /\ ~lastOp'.done
               /\ canvases' = canvases
               /\ currentCanvasId' = currentCanvasId
               /\ nodes' = nodes
          /\ Len(canvases) > 1 =>
               /\ lastOp'.done
               /\ CanvasIds(canvases') = CanvasIds(canvases) \ {lastOp'.target}
               /\ Len(canvases') = Len(canvases) - 1
               /\ \A j \in DOMAIN canvases' : \E i \in DOMAIN canvases :
                    /\ canvases[i].id = canvases'[j].id
                    /\ canvases[i].nodes = canvases'[j].nodes
          /\ (Len(canvases) > 1 /\ lastOp'.target = currentCanvasId) =>
               /\ currentCanvasId' # currentCanvasId
               /\ currentCanvasId' \in CanvasIds(canvases')]_vars

C27_Witness ==
  /\ lastOp.op = "canvasDelete" /\ lastOp.done
  /\ lastOp.target = lastOp.chat
  /\ currentCanvasId # lastOp.target
  /\ Len(canvases) >= 2
  /\ \E i \in DOMAIN canvases : canvases[i].nodes # <<>>

\* C25: a drag changes the x and y of the dragged node and nothing else of
\* the node list, a resize the width and height of the resized node and
\* nothing else: the other fields of the node and all other nodes stay, and
\* so do the length and order of the list; a drag or resize for an id that no
\* node has leaves the list as it is.
C25_DragAndResizeFrame ==
  [][/\ lastOp'.op \in {"drag", "resize"} =>
          /\ Len(nodes') = Len(nodes)
          /\ \A i \in DOMAIN nodes :
               IF nodes[i].id # lastOp'.target
               THEN nodes'[i] = nodes[i]
               ELSE IF lastOp'.op = "drag"
                    THEN nodes'[i] = [nodes[i] EXCEPT !.x = nodes'[i].x, !.y = nodes'[i].y]
                    ELSE nodes'[i] = [nodes[i] EXCEPT !.width = nodes'[i].width,
                                                      !.height = nodes'[i].height]
     /\ BlockDragged(nodes, <<"node", 0>>, Whole(1), Whole(1)) = nodes
     /\ BlockResized(nodes, <<"node", 0>>, 200, 100) = nodes]_vars

\* the second of two nodes of the same text, dropped on the same spot, has
\* been dragged by (40, -30); the first is where it was
C25_Witness ==
  /\ lastOp.op = "drag"
  /\ Len(nodes) = 2
  /\ nodes[2].id = lastOp.target
  /\ nodes[1].text = nodes[2].text
  /\ nodes[2].x = RatAdd(nodes[1].x, Whole(40))
  /\ nodes[2].y = RatSub(nodes[1].y, Whole(30))

\* C26: every node, in the live list and in every canvas record, is between
\* 200 and 600 wide and between 100 and 500 high, in every reachable state:
\* as created, and after every resize gesture, whatever the mouse did.
C26_NodeSizesInRange ==
  \A ns \in {nodes} \cup {canvases[i].nodes : i \in DOMAIN canvases} :
    \A j \in DOMAIN ns :
      /\ 200 <= ns[j].width /\ ns[j].width <= 600
      /\ 100 <= ns[j].height /\ ns[j].height <= 500

\* after resize gestures far beyond the bounds, one node is as narrow and
\* high as a node gets and one as wide and low
C26_Witness ==
  /\ lastOp.op = "resize" /\ lastOp.done
  /\ \E j \in DOMAIN nodes : nodes[j].width = 200 /\ nodes[j].height = 500
  /\ \E j \in DOMAIN nodes : nodes[j].width = 600 /\ nodes[j].height = 100

\* C30: isPanning becomes true only by a mouse-down on the background, and
\* a mouse-down elsewhere starts nothing; a mouse move during a pan sets the
\* pan offset to the offset at the mouse-down that started the pan plus the
\* displacement of the mouse since then; a mouse move outside a pan leaves
\* the offset; a mouse-up ends the pan; and mouse-down, move and mouse-up
\* leave the nodes, the canvas records and the zoom as they are.
C30_PanIsDragToOffset ==
  [][/\ (isPanning' /\ ~isPanning) => (lastOp'.op = "mouseDown" /\ lastOp'.done)
     /\ lastOp'.op = "mouseDown" =>
          /\ isPanning' = (lastOp'.done \/ isPanning)
          /\ pan' = pan
     /\ (lastOp'.op = "mouseMove" /\ isPanning) =>
          /\ pan'.x = RatAdd(panOrigin.pan.x,
                             RatSub(Whole(lastOp'.target[1]), Whole(panOrigin.mouse[1])))
          /\ pan'.y = RatAdd(panOrigin.pan.y,
                             RatSub(Whole(lastOp'.target[2]), Whole(panOrigin.mouse[2])))
          /\ isPanning'
     /\ (lastOp'.op = "mouseMove" /\ ~isPanning) => (pan' = pan /\ ~isPanning')
     /\ lastOp'.op = "mouseUp" => (~isPanning' /\ pan' = pan)
     /\ lastOp'.op \in {"mouseDown", "mouseMove", "mouseUp"} =>
          (nodes' = nodes /\ canvases' = canvases /\ zoom' = zoom)]_vars

\* a pan over a zoomed canvas with a block has moved the offset
C30_Witness ==
  /\ lastOp.op = "mouseMove" /\ lastOp.done
  /\ isPanning
  /\ pan # panOrigin.pan
  /\ lastOp.target # panOrigin.mouse
  /\ nodes # <<>>
  /\ zoom # Whole(1)

----------------------------------------------------------------------------
(* Properties of the completion requests *)

InFlightOf(chatId) == {i \in DOMAIN inflight : inflight[i].chat = chatId}

\* C14: no chat session has two completion requests in flight at once.
C14_OneRequestPerSession ==
  \A i \in DOMAIN inflight : Cardinality(InFlightOf(inflight[i].chat)) <= 1

MessagesOf(ss, chatId) ==
  LET found == SelectSeq(ss, LAMBDA c : c.id = chatId)
  IN IF found = <<>> THEN <<>> ELSE found[1].messages

Positions(msgs, id) == {i \in DOMAIN msgs : msgs[i].id = id}

\* C15: a submit leaves the user message at the end of the active session;
\* and the completion of a request whose session is still in the store
\* leaves in that session exactly one assistant message of that request,
\* directly after the user message that prompted it.
C15_ResponseFollowsItsPrompt ==
  [][/\ (lastOp'.op = "submit" /\ lastOp'.done) =>
          LET msgs == MessagesOf(chatSessions', currentChatId)
          IN msgs # <<>> /\ msgs[Len(msgs)].id = lastOp'.target
     /\ (lastOp'.op = "finish" /\ lastOp'.chat \in SessionIds(chatSessions')) =>
          LET msgs == MessagesOf(chatSessions', lastOp'.chat)
              answers == Positions(msgs, lastOp'.target)
              prompts == Positions(msgs, <<"user", lastOp'.target[2]>>)
          IN /\ Cardinality(answers) = 1
             /\ \A a \in answers : (a - 1) \in prompts]_vars

----------------------------------------------------------------------------
(* Properties of the session store over a failing localStorage *)

\* C16: when the try block of the load effect is left by an exception (getItem
\* throws, or the stored array cannot be mapped), the load effect sets exactly
\* one session, with id 'default-chat', title 'New Chat' and no messages, and
\* the store is marked loaded; when setItem throws in the save effect, the
\* item keeps its value and the in-memory array holds what the event made of
\* it: the added chat, the deletion, the submitted message.
C16_StorageFailuresContained ==
  [][/\ (lastOp'.op = "load" /\ LoadThrows(storage, storageFaults)) =>
          /\ isLoaded'
          /\ Len(lastOp'.loaded) = 1
          /\ lastOp'.loaded[1].id = DefaultChatId
          /\ lastOp'.loaded[1].title = "New Chat"
          /\ lastOp'.loaded[1].messages = <<>>
          /\ DefaultChatId \in SessionIds(chatSessions')
     /\ (storageFaults.setItem /\ lastOp'.op \in {"load", "new", "delete", "submit"}) =>
          /\ storage' = storage
          /\ lastOp'.op = "new" =>
                /\ Len(chatSessions') = Len(chatSessions) + 1
                /\ chatSessions'[1].id = lastOp'.target
          /\ lastOp'.op = "delete" =>
                /\ lastOp'.chat \notin SessionIds(chatSessions')
                /\ Len(chatSessions') = Len(chatSessions) - 1
          /\ (lastOp'.op = "submit" /\ lastOp'.done) =>
                LET msgs == MessagesOf(chatSessions', currentChatId)
                IN msgs # <<>> /\ msgs[Len(msgs)].id = lastOp'.target]_vars

\* a load whose stored array could not be mapped, followed by a save effect
\* whose setItem threw: the corrupt item is still there, the store is loaded
C16_Witness ==
  /\ lastOp.op = "load"
  /\ isLoaded
  /\ storageFaults.setItem
  /\ storage # <<>>
  /\ ParseThrows(storage[1])
  /\ Len(storage[1]) = 2
  /\ lastOp.loaded = <<NewChat(DefaultChatId, lastOp.loaded[1].lastActivity[2])>>

\* C18: once the store is loaded, and localStorage takes the writes, the item
\* under 'chat-sessions' is the serialization of the entire in-memory array
\* after every event: every session in the order of the array, every message
\* of it, dates as ISO strings.
C18_ItemIsSerializedArray ==
  isLoaded =>
    /\ Len(storage) = 1
    /\ Len(storage[1]) = Len(chatSessions)
    /\ \A i \in DOMAIN chatSessions :
         /\ DOMAIN storage[1][i] = DOMAIN chatSessions[i]
         /\ storage[1][i].id = chatSessions[i].id
         /\ storage[1][i].title = chatSessions[i].title
         /\ storage[1][i].lastActivity = DateToJSON(chatSessions[i].lastActivity)
         /\ Len(storage[1][i].messages) = Len(chatSessions[i].messages)
         /\ \A j \in DOMAIN chatSessions[i].messages :
              /\ storage[1][i].messages[j].id = chatSessions[i].messages[j].id
              /\ storage[1][i].messages[j].type = chatSessions[i].messages[j].type
              /\ storage[1][i].messages[j].content = chatSessions[i].messages[j].content
              /\ storage[1][i].messages[j].timestamp =
                   DateToJSON(chatSessions[i].messages[j].timestamp)

\* a chat has been deleted from a store to which chats were added and in
\* which a session was updated with a message
C18_Witness ==
  /\ isLoaded
  /\ lastOp.op = "delete"
  /\ Len(chatSessions) >= 2
  /\ \E i \in DOMAIN chatSessions : chatSessions[i].id[1] = "new-chat"
  /\ \E i \in DOMAIN chatSessions : chatSessions[i].messages # <<>>

\* C19: ensureChatExists(id) creates the session if it is absent.  A call for
\* an id in the store leaves the store as it is; a call for an id that is not
\* in it adds exactly one session with that id, title 'New Chat' and no
\* messages; and however many calls were made for an id, also calls made
\* before the update of an earlier call was rendered, the store with all
\* updates applied holds at most one session of each id ensured.
C19_EnsureCreatesOnce ==
  LET store == AddAll(chatSessions, queued)
  IN /\ \A id \in EnsureIds : Cardinality(Positions(store, id)) <= 1
     /\ lastOp.op = "ensure" =>
          /\ Cardinality(Positions(store, lastOp.chat)) = 1
          /\ \A i \in Positions(queued, lastOp.chat) :
               queued[i].title = "New Chat" /\ queued[i].messages = <<>>

----------------------------------------------------------------------------
(* Properties of the wheel zoom *)

\* C20: a wheel event over the canvas with a non-zero deltaY changes the zoom
\* level, unless the clamp to [0.5, 3] cuts the change off: from a zoom level
\* strictly inside the range, where a change by either sign of deltaY is not
\* cut off entirely, the zoom level after the event differs from the one before.
C20_WheelChangesZoom ==
  [][(/\ lastOp'.op = "wheel"
      /\ lastOp'.done
      /\ zoom # <<1, 2>>
      /\ zoom # Whole(3)) => zoom' # zoom]_vars

\* C23: a response that completed while another session than the one of its
\* prompt was active is in the messages of no other session than the one
\* its prompt was submitted from: not in the session active when it
\* completed, and not in any session later.
C23_LateResponseStaysOut ==
  \A k \in DOMAIN submitted :
    (submitted[k].finishedIn # <<>> /\ submitted[k].finishedIn[1] # submitted[k].chat) =>
      \A i \in DOMAIN chatSessions :
        chatSessions[i].id # submitted[k].chat =>
          <<"ai", submitted[k].id[2]>> \notin MessageIds(chatSessions[i].messages)

\* C24: nothing is written under 'chat-sessions' before the load has
\* completed.  The effects of the mount leave the item as they found it, no
\* step that ends with the store not loaded changes the item, and every
\* session an earlier run had persisted is in the item after the load, as it
\* was persisted.
C24_NoWriteBeforeLoad ==
  [][/\ ~isLoaded' => storage' = storage
     /\ lastOp'.op = "load" =>
          /\ lastOp'.itemAtMount = storage
          /\ storage # <<>> =>
               /\ storage' # <<>>
               /\ \A i \in DOMAIN storage[1] :
                    \E j \in DOMAIN storage'[1] : storage'[1][j] = storage[1][i]]_vars

\* a load that found two sessions of an earlier run, one with messages
C24_Witness ==
  /\ lastOp.op = "load"
  /\ lastOp.itemAtMount # <<>>
  /\ Len(lastOp.itemAtMount[1]) >= 2
  /\ \E i \in DOMAIN lastOp.itemAtMount[1] : lastOp.itemAtMount[1][i].messages # <<>>
  /\ storage = lastOp.itemAtMount

\* C28: in every state with isLoaded set (the load and the ensure-exists
\* effect have run) the session array is not empty and holds a session whose
\* id is currentChatId, whatever new-chat, delete and select operations came
\* before; a delete happens only while more than one session is listed, it
\* removes the session it names, and it leaves a listed session active.
C28_ActiveSessionExists ==
  /\ [](isLoaded => /\ Len(chatSessions) >= 1
                    /\ currentChatId \in SessionIds(chatSessions))
  /\ [][lastOp'.op = "delete" =>
          /\ Len(chatSessions) > 1
          /\ lastOp'.chat \notin SessionIds(chatSessions')
          /\ Len(chatSessions') >= 1
          /\ currentChatId' \in SessionIds(chatSessions) \ {lastOp'.chat}]_vars

C28_Witness ==
  /\ isLoaded
  /\ lastOp.op = "delete" /\ lastOp.done
  /\ Len(chatSessions) = 1
  /\ currentChatId = chatSessions[1].id
  /\ currentChatId # lastOp.chat

----------------------------------------------------------------------------
(* Properties of the highlight *)

\* C21: a highlight clears itself.  Whenever a message is highlighted, the
\* highlight is null again later, by the clear timer, also when the App has
\* rendered again while the timer was pending; and neither the block click
\* that sets a highlight nor the timer changes the session array or the
\* stored item.
C21_HighlightClearsItself ==
  /\ (highlightedMessageId # <<>>) ~> (highlightedMessageId = <<>>)
  /\ [][lastOp'.op \in {"blockClick", "timePasses"} =>
          (chatSessions' = chatSessions /\ storage' = storage)]_vars

\* a node without back-reference, as no selection makes one
NodeWithoutSource ==
  [id |-> <<"node", 0>>, text |-> <<Ch(5)>>, x |-> Whole(0), y |-> Whole(0),
   width |-> 240, height |-> 120, sourceMessageId |-> <<>>, sourceChatId |-> <<>>,
   color |-> Colors[1]]

\* C29: a click on a block with a source message id makes that id, and no
\* other, the highlighted message, and makes the block's source chat the
\* active chat when it is set and differs from the active one (otherwise
\* the active chat stays); a click on a block without source message id
\* calls nothing, so highlight and active chat stay.  A node that appears
\* carries the message id and the chat id of the selection it was made from:
\* the selection of the same step, or the pending one which a selection
\* step has set to its message id and the chat active at that time.
C29_BlockClickFollowsBackReference ==
  [][/\ lastOp'.op = "blockClick" =>
          \E i \in DOMAIN nodes :
             /\ nodes[i].id = lastOp'.target
             /\ IF nodes[i].sourceMessageId # <<>>
                THEN /\ lastOp'.done
                     /\ highlightedMessageId' = nodes[i].sourceMessageId
                     /\ currentChatId' =
                          IF /\ nodes[i].sourceChatId # <<>>
                             /\ nodes[i].sourceChatId[1] # currentChatId
                          THEN nodes[i].sourceChatId[1]
                          ELSE currentChatId
                ELSE /\ ~lastOp'.done
                     /\ highlightedMessageId' = highlightedMessageId
                     /\ currentChatId' = currentChatId
     /\ BlockClickCall(<<NodeWithoutSource>>, NodeWithoutSource.id) = <<>>
     /\ BlockClickCall(nodes, <<"node", 0>>) = <<>>
     /\ (lastOp'.op = "textDrag" /\ lastOp'.done) =>
          \E m \in HighlightMessageIds :
             /\ \/ sourceMsgId' = <<m>> /\ sourceChatId' = <<currentChatId>>
                \/ /\ Len(nodes') = Len(nodes) + 1
                   /\ nodes'[Len(nodes')].sourceMessageId = <<m>>
                   /\ nodes'[Len(nodes')].sourceChatId = <<currentChatId>>
     /\ \A j \in DOMAIN nodes' :
          (\A i \in DOMAIN nodes : nodes[i].id # nodes'[j].id) =>
            \/ lastOp'.op = "textDrag"
            \/ /\ nodes'[j].sourceMessageId = sourceMsgId
               /\ nodes'[j].sourceChatId = sourceChatId
               /\ sourceMsgId # <<>>]_vars

\* a click has made the source chat of a block the active chat again and
\* highlighted the block's message, while a block of another message exists
C29_Witness ==
  /\ lastOp.op = "blockClick" /\ lastOp.done
  /\ lastOp.chat # currentChatId
  /\ \E i \in DOMAIN nodes :
       /\ nodes[i].id = lastOp.target
       /\ nodes[i].sourceChatId = <<currentChatId>>
       /\ nodes[i].sourceMessageId = highlightedMessageId
  /\ \E j \in DOMAIN nodes : nodes[j].sourceMessageId # highlightedMessageId

----------------------------------------------------------------------------
(* Properties of the sidebar *)

\* two strings that differ at most in the case of their letters
SameIgnoringCase(a, b) ==
  /\ Len(a) = Len(b)
  /\ \A k \in DOMAIN a :
       a[k] = b[k] \/ {a[k], b[k]} \in { {"a", "A"}, {"b", "B"} }

\* some stretch of text is the query, the case of letters ignored
ContainsIgnoringCase(text, query) ==
  \E i \in 1..(Len(text) + 1) : \E j \in (i - 1)..Len(text) :
    SameIgnoringCase(SubSeq(text, i, j), query)

MatchesQuery(chat, query) ==
  \/ ContainsIgnoringCase(chat.title, query)
  \/ \E j \in DOMAIN chat.messages : ContainsIgnoringCase(chat.messages[j].content, query)

\* C22: the list the sidebar displays holds exactly the sessions whose title
\* or some message content contains the search query, the case of letters
\* ignored (every session for the empty query), each once, ordered by
\* lastActivity non-increasing; and the render that computes it leaves the
\* array it was handed as it was.
C22_SidebarShowsMatchesNewestFirst ==
  [][sortedChats' # <<>> =>
       LET shown == sortedChats'[1]
           matching == {i \in DOMAIN sidebarSessions :
                          MatchesQuery(sidebarSessions[i], searchQuery')}
       IN /\ {shown[i] : i \in DOMAIN shown} = {sidebarSessions[i] : i \in matching}
          /\ Len(shown) = Cardinality(matching)
          /\ \A i, j \in DOMAIN shown :
               i < j => shown[i].lastActivity[2] >= shown[j].lastActivity[2]
          /\ sidebarSessions' = sidebarSessions]_vars

\* a query in capitals shows two of three sessions, found by a title and by
\* a message in other case, and the display order is not the stored order
C22_Witness ==
  /\ searchQuery = <<"A", "B">>
  /\ Len(sidebarSessions) = 3
  /\ sortedChats # <<>>
  /\ Len(sortedChats[1]) = 2
  /\ \E i, j \in DOMAIN sidebarSessions :
       /\ i < j
       /\ sortedChats[1] = <<sidebarSessions[j], sidebarSessions[i]>>

----------------------------------------------------------------------------
(* Properties of the chat route *)

\* C17: POST never throws.  Every call that has ended has returned a
\* response: status 500 with body 'Error processing request' when reading
\* the body threw or streamText rejected, and otherwise the data stream
\* response of the streamText call made with the messages of its body.
C17_RouteAlwaysResponds ==
  \A i \in DOMAIN calls :
    /\ calls[i].pc # "thrown"
    /\ calls[i].pc = "returned" =>
         /\ Len(calls[i].response) = 1
         /\ IF BodyThrows(calls[i].body) \/ calls[i].upstreamFailed
            THEN /\ calls[i].response[1].status = 500
                 /\ calls[i].response[1].body = "Error processing request"
                 /\ calls[i].response[1].stream = <<>>
            ELSE /\ calls[i].response[1].status = 200
                 /\ calls[i].response[1].stream =
                      <<StreamTextCall(BodyMessages(calls[i].body))>>

\* three calls have ended: one whose body could not be read, one whose
\* streamText rejected, one that returned the stream
C17_Witness ==
  \E i, j, k \in DOMAIN calls :
    /\ calls[i].pc = "returned" /\ BodyThrows(calls[i].body)
    /\ calls[j].pc = "returned" /\ calls[j].upstreamFailed
    /\ calls[k].pc = "returned" /\ calls[k].response[1].status = 200

====
